---- MODULE Spec2Model ----
(***************************************************************************)
(* FluxState: the simulation engine of src/src/scripts (store, power       *)
(* model, thermal model, warning generator, simulation loop).              *)
(*                                                                         *)
(* JavaScript numbers are modelled in fixed point:                         *)
(*   watts          in centiwatts      (25000 = 250 W)                     *)
(*   temperatures   in centidegrees    (2500  = 25 C)                      *)
(*   percentages    in centipercent    (9500  = 95 %)                      *)
(*   times          in milliseconds    (100   = 0.1 s)                     *)
(*   pure factors   in per-mille       (920   = 0.92)                      *)
(* A product a*b/c is computed as (a*b) \div c, rounding toward minus      *)
(* infinity.  null/undefined hardware is the id "null"; an undefined       *)
(* numeric field of a record is 0 (every use in the source is `x || d`);   *)
(* a nullable object is the empty tuple, a present one a 1-tuple.          *)
(***************************************************************************)
EXTENDS Integers, Sequences, FiniteSets, TLC

Null == "null"
None == << >>
Some(x) == << x >>

Max(a, b) == IF a >= b THEN a ELSE b
Min(a, b) == IF a <= b THEN a ELSE b
MulDiv(a, n, d) == (a * n) \div d

(***************************************************************************)
(* NaN is the IEEE not-a-number that Math.pow returns for a negative base  *)
(* and a fractional exponent.  Arithmetic propagates it, Math.max and      *)
(* Math.min return it, every comparison with it is false, and it is falsy. *)
(***************************************************************************)
NaN == -2000000000

NAdd(a, b) == IF a = NaN \/ b = NaN THEN NaN ELSE a + b
NSub(a, b) == IF a = NaN \/ b = NaN THEN NaN ELSE a - b
NMulDiv(a, n, d) == IF a = NaN \/ n = NaN \/ d = NaN THEN NaN ELSE (a * n) \div d
NMax(a, b) == IF a = NaN \/ b = NaN THEN NaN ELSE Max(a, b)
NMin(a, b) == IF a = NaN \/ b = NaN THEN NaN ELSE Min(a, b)
NGt(a, b) == a # NaN /\ b # NaN /\ a > b
NGe(a, b) == a # NaN /\ b # NaN /\ a >= b
NLt(a, b) == a # NaN /\ b # NaN /\ a < b
NLe(a, b) == a # NaN /\ b # NaN /\ a <= b
Truthy(x) == x # 0 /\ x # NaN

(***************************************************************************)
(* Math.pow(x, e) for the exponents the engine uses (e = 10 * exponent),   *)
(* x in per-mille: tabulated at x = 0, 0.1, ..., 1 and at x = 1, 2, ...,   *)
(* 21 and interpolated linearly between the nodes.                         *)
(***************************************************************************)
PowTable(e) ==
    CASE e = 11 -> << 0, 79, 170, 266, 365, 467, 570, 675, 782, 891, 1000 >>
      [] e = 13 -> << 0, 50, 123, 209, 304, 406, 515, 629, 748, 872, 1000 >>
      [] e = 25 -> << 0, 3, 18, 49, 101, 177, 279, 410, 572, 768, 1000 >>

PowTableHigh(e) ==
    CASE e = 11 -> << 1000, 2144, 3348, 4595, 5873, 7177, 8504, 9849, 11212, 12589,
                      13981, 15385, 16801, 18228, 19665, 21112, 22568, 24033, 25505,
                      26986, 28474 >>
      [] e = 25 -> << 1000, 5657, 15588, 32000, 55902, 88182, 129642, 181019, 243000,
                      316228, 401312, 498831, 609338, 733365, 871421, 1024000, 1191578,
                      1374616, 1573563, 1788854, 2020916 >>

Pow(x, e) ==
    IF x = NaN \/ x < 0 THEN NaN
    ELSE IF x <= 1000
    THEN LET t == PowTable(e)
             i == x \div 100
             r == x % 100
         IN  IF i >= 10 THEN t[11]
             ELSE t[i + 1] + ((t[i + 2] - t[i + 1]) * r) \div 100
    ELSE LET t == PowTableHigh(e)
             i == x \div 1000
             r == x % 1000
         IN  t[i] + ((t[i + 1] - t[i]) \div 1000) * r
             + (((t[i + 1] - t[i]) % 1000) * r) \div 1000

\* Math.log2(Math.max(1, n)) in per-mille for the fan counts of the UI (1..8)
Log2 == << 0, 1000, 1585, 2000, 2322, 2585, 2807, 3000 >>

(***************************************************************************)
(* Hardware catalog: read-only records supplied at startup.                *)
(***************************************************************************)
CPUS ==
    "cpuA" :> [ idlePower |-> 1500, lightLoadPower |-> 0, gamingPower |-> 11000,
                renderingPower |-> 20000, stressPower |-> 25000,
                shortBoostPower |-> 27000, shortBoostDuration |-> 28000,
                maxSafeTemp |-> 10000, throttleTemp |-> 9000,
                supportedMemory |-> Some({"DDR4", "DDR5"}) ]
 @@ "cpuB" :> [ idlePower |-> 1000, lightLoadPower |-> 3000, gamingPower |-> 6500,
                renderingPower |-> 10500, stressPower |-> 12500,
                shortBoostPower |-> 0, shortBoostDuration |-> 0,
                maxSafeTemp |-> 9000, throttleTemp |-> 0,
                supportedMemory |-> None ]

GPUS ==
    "gpuA" :> [ idleDraw |-> 2000, lightLoadDraw |-> 0, gamingDraw |-> 30000,
                renderingDraw |-> 35000, stressDraw |-> 45000,
                transientMultiplier |-> 1800 ]
    \* an entry of the CSV import: no lightLoadDraw, renderingDraw or stressDraw,
    \* so arithmetic on the missing fields yields NaN
 @@ "gpuCsv" :> [ idleDraw |-> 800, lightLoadDraw |-> 0, gamingDraw |-> 6800,
                  renderingDraw |-> NaN, stressDraw |-> NaN,
                  transientMultiplier |-> 1500 ]

MEMORY ==
    "ddr4" :> [ type |-> "DDR4", idlePower |-> 300, loadPower |-> 600,
                heatContribution |-> 300, sticks |-> 2, capacity |-> 32 ]
 @@ "ddr5" :> [ type |-> "DDR5", idlePower |-> 400, loadPower |-> 900,
                heatContribution |-> 400, sticks |-> 2, capacity |-> 32 ]
 @@ "ddr3" :> [ type |-> "DDR3", idlePower |-> 350, loadPower |-> 700,
                heatContribution |-> 350, sticks |-> 2, capacity |-> 16 ]

PSUS ==
    "psu850" :> [ wattage |-> 850, transientResponse |-> 850,
                  efficiency |-> (0 :> 800 @@ 20 :> 880 @@ 50 :> 920 @@ 100 :> 870) ]
 @@ "psu550" :> [ wattage |-> 550, transientResponse |-> 0,
                  efficiency |-> (0 :> 800 @@ 50 :> 920 @@ 100 :> 870) ]
 @@ "psu650" :> [ wattage |-> 650, transientResponse |-> 750,
                  efficiency |-> (20 :> 850 @@ 50 :> 900 @@ 100 :> 850) ]

COOLING ==
    "air" :> [ heatDissipation |-> 15000, thermalMass |-> 200, responseTime |-> 1000,
               airflowEffectiveness |-> 800, maxRecommendedTdp |-> 12500 ]
 @@ "aio" :> [ heatDissipation |-> 30000, thermalMass |-> 800, responseTime |-> 0,
               airflowEffectiveness |-> 900, maxRecommendedTdp |-> 0 ]

(***************************************************************************)
(* Power model                                                             *)
(***************************************************************************)
WORKLOAD_PROFILES ==
    "idle"      :> [ cpuLoadType |-> "idle", gpuLoadType |-> "idle",
                     memoryActivity |-> 100, storageActivity |-> 50 ]
 @@ "lightLoad" :> [ cpuLoadType |-> "light", gpuLoadType |-> "idle",
                     memoryActivity |-> 250, storageActivity |-> 150 ]
 @@ "gaming"    :> [ cpuLoadType |-> "gaming", gpuLoadType |-> "gaming",
                     memoryActivity |-> 550, storageActivity |-> 300 ]
 @@ "streaming" :> [ cpuLoadType |-> "rendering", gpuLoadType |-> "gaming",
                     memoryActivity |-> 700, storageActivity |-> 400 ]
 @@ "rendering" :> [ cpuLoadType |-> "rendering", gpuLoadType |-> "rendering",
                     memoryActivity |-> 850, storageActivity |-> 600 ]
 @@ "compiling" :> [ cpuLoadType |-> "rendering", gpuLoadType |-> "idle",
                     memoryActivity |-> 750, storageActivity |-> 850 ]
 @@ "stress"    :> [ cpuLoadType |-> "stress", gpuLoadType |-> "stress",
                     memoryActivity |-> 950, storageActivity |-> 500 ]

\* FIXED_POWER (centiwatts)
MotherboardIdle == 1800
MotherboardLightLoad == 2800
MotherboardLoad == 4500
PeripheralsPower == 800
RgbModerate == 500
FanPerUnitMin == 100
FanPerUnitMax == 480

\* STORAGE_POWER.nvme (centiwatts; heatFactor in 1e-4)
NvmeIdle == 100
NvmeActive == 350
NvmeHeatFactor == 150

\* power * (1 - throttlePercent / 100)
applyThrottling(p, throttlePercent) == p - MulDiv(p, throttlePercent, 10000)

\* calculateCpuPower that reports the boost under the stress load type only
calculateCpuPower_StressOnlyBoost(cpu, workload, boostState, throttlePercent) ==
    IF cpu = Null THEN [ current |-> 0, target |-> 0, isBoost |-> FALSE ]
    ELSE
    LET c == CPUS[cpu]
        loadType == WORKLOAD_PROFILES[workload].cpuLoadType
        boosting == boostState.boostTimeRemaining > 0 /\ c.shortBoostDuration > 0
        isBoost == loadType = "stress" /\ boosting
        base == CASE loadType = "idle" -> c.idlePower
                  [] loadType = "light" ->
                        IF c.lightLoadPower # 0 THEN c.lightLoadPower
                        ELSE (c.idlePower + c.gamingPower) \div 2
                  [] loadType = "gaming" -> c.gamingPower
                  [] loadType = "rendering" ->
                        IF boosting THEN c.shortBoostPower ELSE c.renderingPower
                  [] loadType = "stress" ->
                        IF boosting THEN c.shortBoostPower ELSE c.stressPower
        targetPower == IF throttlePercent > 0
                       THEN applyThrottling(base, throttlePercent) ELSE base
        current == IF boostState.currentPower # 0
                   THEN boostState.currentPower ELSE targetPower
        newPower == current + MulDiv(targetPower - current, 150, 1000)
    IN  [ current |-> Max(c.idlePower, newPower), target |-> targetPower,
          isBoost |-> isBoost ]

calculateCpuPower(cpu, workload, boostState, throttlePercent) ==
    IF cpu = Null THEN [ current |-> 0, target |-> 0, isBoost |-> FALSE ]
    ELSE
    LET c == CPUS[cpu]
        loadType == WORKLOAD_PROFILES[workload].cpuLoadType
        boosting == boostState.boostTimeRemaining > 0 /\ c.shortBoostDuration > 0
        isBoost == loadType \in {"rendering", "stress"} /\ boosting
        base == CASE loadType = "idle" -> c.idlePower
                  [] loadType = "light" ->
                        IF c.lightLoadPower # 0 THEN c.lightLoadPower
                        ELSE (c.idlePower + c.gamingPower) \div 2
                  [] loadType = "gaming" -> c.gamingPower
                  [] loadType = "rendering" ->
                        IF boosting THEN c.shortBoostPower ELSE c.renderingPower
                  [] loadType = "stress" ->
                        IF boosting THEN c.shortBoostPower ELSE c.stressPower
        targetPower == IF throttlePercent > 0
                       THEN applyThrottling(base, throttlePercent) ELSE base
        current == IF boostState.currentPower # 0
                   THEN boostState.currentPower ELSE targetPower
        newPower == current + MulDiv(targetPower - current, 150, 1000)
    IN  [ current |-> Max(c.idlePower, newPower), target |-> targetPower,
          isBoost |-> isBoost ]

calculateGpuPower(gpu, workload, ambientTemp, throttlePercent) ==
    IF gpu = Null THEN [ sustained |-> 0, transient |-> 0 ]
    ELSE
    LET g == GPUS[gpu]
        loadType == WORKLOAD_PROFILES[workload].gpuLoadType
        basePower == CASE loadType = "idle" -> g.idleDraw
                       [] loadType = "gaming" -> g.gamingDraw
                       [] loadType = "rendering" -> g.renderingDraw
                       [] loadType = "stress" -> g.stressDraw
        \* leakageScalar = 1 + max(0, (ambient - 25) * 0.003)
        leakage == Max(0, MulDiv(ambientTemp - 2500, 3, 100))
        leaked == NAdd(basePower, NMulDiv(basePower, leakage, 1000))
        adjustedPower == IF throttlePercent > 0
                         THEN NSub(leaked,
                                   NMulDiv(leaked, MulDiv(throttlePercent, 4, 10), 10000))
                         ELSE leaked
        transientPeak == IF loadType # "idle"
                         THEN NMulDiv(adjustedPower, g.transientMultiplier, 1000)
                         ELSE adjustedPower
    \* Math.max(gpu.idleDraw, adjustedPower) is NaN when adjustedPower is
    IN  [ sustained |-> NMax(g.idleDraw, adjustedPower), transient |-> transientPeak ]

calculateMemoryPower(memory, workload) ==
    IF memory = Null THEN [ power |-> 500, heat |-> 200 ]
    ELSE
    LET m == MEMORY[memory]
        activity == WORKLOAD_PROFILES[workload].memoryActivity
        basePower == m.idlePower + MulDiv(m.loadPower - m.idlePower, activity, 1000)
        adjustedPower == IF m.type = "DDR3" THEN MulDiv(basePower, 1300, 1000)
                         ELSE basePower
    IN  [ power |-> adjustedPower,
          heat |-> MulDiv(MulDiv(m.heatContribution, activity, 1000), m.sticks, 2) ]

calculateStoragePower(storageConfig, workload) ==
    LET activity == WORKLOAD_PROFILES[workload].storageActivity
        adjustedActivity == IF workload = "compiling"
                            THEN Min(MulDiv(activity, 14, 10), 1000) ELSE activity
        count == storageConfig.nvme
    IN  IF count > 0
        THEN [ power |-> NvmeIdle * count
                         + MulDiv(NvmeActive - NvmeIdle, adjustedActivity, 1000) * count,
               heat |-> MulDiv(NvmeHeatFactor, adjustedActivity, 1000) * count ]
        ELSE [ power |-> 0, heat |-> 0 ]

calculateFixedPower(fanCountIn, fanSpeedIn, workload) ==
    LET fanCount == IF fanCountIn # 0 THEN fanCountIn ELSE 3
        fanSpeed == IF Truthy(fanSpeedIn) THEN fanSpeedIn ELSE 3000
        motherboard ==
            IF workload \in {"rendering", "stress", "compiling"} THEN MotherboardLoad
            ELSE IF workload \in {"gaming", "streaming"} THEN MotherboardLightLoad + 1000
            ELSE IF workload = "lightLoad" THEN MotherboardLightLoad
            ELSE MotherboardIdle
        fanPowerEach == NAdd(FanPerUnitMin,
            NMulDiv(Pow(fanSpeed \div 10, 25), FanPerUnitMax - FanPerUnitMin, 1000))
    IN  [ motherboard |-> motherboard, peripherals |-> PeripheralsPower,
          rgb |-> RgbModerate, fans |-> NMulDiv(fanPowerEach, fanCount, 1) ]

calculateTotalPower(config, boostState, throttlePercent) ==
    LET cpuPower == calculateCpuPower(config.cpu, config.workload, boostState, throttlePercent)
        gpuPower == calculateGpuPower(config.gpu, config.workload, config.ambientTemp,
                                      throttlePercent)
        memPower == calculateMemoryPower(config.memory, config.workload)
        storagePower == calculateStoragePower(config.storageConfig, config.workload)
        fixed == calculateFixedPower(config.fanCount, config.fanSpeed, config.workload)
        sustainedTotal == NAdd(cpuPower.current + gpuPower.sustained + memPower.power
                               + storagePower.power + fixed.motherboard
                               + fixed.peripherals + fixed.rgb, fixed.fans)
    IN  [ cpu |-> cpuPower.current, cpuTarget |-> cpuPower.target,
          cpuIsBoost |-> cpuPower.isBoost,
          gpu |-> gpuPower.sustained, gpuTransient |-> gpuPower.transient,
          memory |-> memPower.power, memoryHeat |-> memPower.heat,
          storage |-> storagePower.power,
          motherboard |-> fixed.motherboard, peripherals |-> fixed.peripherals,
          rgb |-> fixed.rgb, fans |-> fixed.fans,
          sustainedTotal |-> sustainedTotal,
          transientPeak |-> NAdd(sustainedTotal, gpuPower.transient - gpuPower.sustained) ]

\* (power / psu.wattage) * 100, centipercent
calculatePsuLoad(p, psu) == IF psu = Null THEN 0 ELSE NMulDiv(p, 100, PSUS[psu].wattage)

RECURSIVE SortedPoints(_)
SortedPoints(s) ==
    IF s = {} THEN << >>
    ELSE LET lo == CHOOSE x \in s : \A y \in s : x <= y
         IN  << lo >> \o SortedPoints(s \ {lo})

RECURSIVE Interpolate(_, _, _, _)
Interpolate(curve, points, loadPercent, i) ==
    IF i > Len(points) - 1 THEN 850
    ELSE IF loadPercent >= points[i] * 100 /\ loadPercent <= points[i + 1] * 100
    THEN curve[points[i]]
         + ((curve[points[i + 1]] - curve[points[i]]) * (loadPercent - points[i] * 100))
           \div ((points[i + 1] - points[i]) * 100)
    ELSE Interpolate(curve, points, loadPercent, i + 1)

\* the lookup that interpolates without clamping above the highest point
getPsuEfficiency_NoUpperClamp(loadPercent, psu) ==
    IF psu = Null THEN 850
    ELSE
    LET curve == PSUS[psu].efficiency
        points == SortedPoints(DOMAIN curve)
    IN  IF loadPercent = NaN THEN 850
        ELSE IF loadPercent <= points[1] * 100 THEN curve[points[1]]
        ELSE Interpolate(curve, points, loadPercent, 1)

getPsuEfficiency(loadPercent, psu) ==
    IF psu = Null THEN 850
    ELSE
    LET curve == PSUS[psu].efficiency
        points == SortedPoints(DOMAIN curve)
    IN  IF loadPercent = NaN THEN 850
        ELSE IF loadPercent <= points[1] * 100 THEN curve[points[1]]
        ELSE IF loadPercent >= points[Len(points)] * 100 THEN curve[points[Len(points)]]
        ELSE Interpolate(curve, points, loadPercent, 1)

\* 100 + (transientResponse - 0.7) * 80, centipercent
TransientLimit(psu) ==
    LET tr == IF psu # Null /\ PSUS[psu].transientResponse # 0
              THEN PSUS[psu].transientResponse ELSE 800
    IN  10000 + (tr - 700) * 8

\* calculateWallPower that divides by the missing PSU's wattage
calculateWallPower_NoNullBranch(systemPower, transientPower, psu) ==
    IF psu = Null
    THEN [ wallPower |-> systemPower, efficiency |-> 850,
           heatWaste |-> NMulDiv(systemPower, 150, 1000),
           loadPercent |-> NaN, transientLoad |-> NaN, transientStable |-> FALSE ]
    ELSE
    LET loadPercent == calculatePsuLoad(systemPower, psu)
        transientLoad == calculatePsuLoad(transientPower, psu)
        efficiency == getPsuEfficiency(loadPercent, psu)
        wallPower == NMulDiv(systemPower, 1000, efficiency)
    IN  [ wallPower |-> wallPower, efficiency |-> efficiency,
          heatWaste |-> NSub(wallPower, systemPower),
          loadPercent |-> loadPercent, transientLoad |-> transientLoad,
          transientStable |-> NLt(transientLoad, TransientLimit(psu)) ]

calculateWallPower(systemPower, transientPower, psu) ==
    IF psu = Null
    THEN [ wallPower |-> systemPower, efficiency |-> 850,
           heatWaste |-> NMulDiv(systemPower, 150, 1000),
           loadPercent |-> 0, transientLoad |-> 0, transientStable |-> TRUE ]
    ELSE
    LET loadPercent == calculatePsuLoad(systemPower, psu)
        transientLoad == calculatePsuLoad(transientPower, psu)
        efficiency == getPsuEfficiency(loadPercent, psu)
        wallPower == NMulDiv(systemPower, 1000, efficiency)
    IN  [ wallPower |-> wallPower, efficiency |-> efficiency,
          heatWaste |-> NSub(wallPower, systemPower),
          loadPercent |-> loadPercent, transientLoad |-> transientLoad,
          transientStable |-> NLt(transientLoad, TransientLimit(psu)) ]

(***************************************************************************)
(* Thermal model (thermal.js)                                              *)
(***************************************************************************)
CPU_PACKAGE_MASS == 30
MIN_FAN_SPEED == 2000
CASE_THERMAL_MASS == 500
APPROACH_RATE == 50

\* createThermalState that seeds the throttling flag set
createThermalState_FlagSet(ambientTemp) ==
    [ cpuTemp |-> ambientTemp, caseTemp |-> ambientTemp + 200,
      ambientTemp |-> ambientTemp, throttlePercent |-> 0, isThrottling |-> TRUE,
      fanSpeed |-> MIN_FAN_SPEED, heatGenerated |-> 0,
      equilibriumTemp |-> ambientTemp, coolingCapacity |-> 10000,
      thermalHeadroom |-> 10000 ]

createThermalState(ambientTemp) ==
    [ cpuTemp |-> ambientTemp, caseTemp |-> ambientTemp + 200,
      ambientTemp |-> ambientTemp, throttlePercent |-> 0, isThrottling |-> FALSE,
      fanSpeed |-> MIN_FAN_SPEED, heatGenerated |-> 0,
      equilibriumTemp |-> ambientTemp, coolingCapacity |-> 10000,
      thermalHeadroom |-> 10000 ]

\* memoryHeat and storageHeat arrive in 1e-4 resp. centiwatt units
calculateHeatGenerated(cpuPower, gpuPower, memoryHeat, psuHeatWaste, storageHeat) ==
    LET memHeat == MulDiv(memoryHeat, 40, 100)
        storeHeat == storageHeat * 30
    IN  [ cpu |-> cpuPower, gpu |-> gpuPower,
          system |-> NAdd(memHeat + storeHeat, psuHeatWaste) ]

calculateCoolingCapacity(cooling, fanCount, fanSpeed, airflowQuality, caseTemp) ==
    IF cooling = Null THEN 10000
    ELSE
    LET c == COOLING[cooling]
        fanRatio == NMulDiv(fanSpeed, 1, 10)
        fanEfficiency == NAdd(150, NMulDiv(Pow(fanRatio, 11), 850, 1000))
        airflowPenalty == 500 + MulDiv(airflowQuality, 500, 1000)
        fanBonus == 1000 + MulDiv(Log2[Max(1, fanCount)], 60, 1000)
        caseTempPenalty == IF NGt(caseTemp, 3500)
                           THEN 1000 - MulDiv(caseTemp - 3500, 15, 100) ELSE 1000
        coolerEffectiveness == IF c.airflowEffectiveness # 0
                               THEN c.airflowEffectiveness ELSE 800
        effectiveCapacity ==
            NMulDiv(NMulDiv(NMulDiv(NMulDiv(NMulDiv(c.heatDissipation,
                fanEfficiency, 1000), airflowPenalty, 1000), fanBonus, 1000),
                caseTempPenalty, 1000), coolerEffectiveness, 1000)
    IN  NMax(5000, effectiveCapacity)

calculateEquilibriumTemp(cpuHeat, cooling, fanCount, fanSpeed, airflowQuality, ambientTemp, caseTemp) ==
    IF cooling = Null \/ cpuHeat <= 0 THEN ambientTemp
    ELSE
    LET effectiveCapacity ==
            calculateCoolingCapacity(cooling, fanCount, fanSpeed, airflowQuality, caseTemp)
        \* cpuHeat / (capacity / 60)
        requiredDelta == NMulDiv(cpuHeat * 6000, 1, effectiveCapacity)
        caseTempOffset == NMax(0, NMulDiv(NSub(caseTemp, ambientTemp), 3, 10))
    IN  NAdd(NAdd(ambientTemp, requiredDelta), caseTempOffset)

calculateFanSpeed(currentTemp, maxSafeTemp, ambientTemp) ==
    LET idleTemp == ambientTemp + 1200
        loadTemp == maxSafeTemp - 800
    IN  IF currentTemp = NaN THEN NaN
        ELSE IF currentTemp <= idleTemp THEN MIN_FAN_SPEED
        ELSE IF currentTemp >= maxSafeTemp THEN 10000
        ELSE IF currentTemp >= loadTemp
        THEN 8500 + MulDiv(currentTemp - loadTemp, 1500, maxSafeTemp - loadTemp)
        ELSE LET position == MulDiv(currentTemp - idleTemp, 1000, loadTemp - idleTemp)
             IN  MIN_FAN_SPEED + MulDiv(Pow(position, 13), 8500 - MIN_FAN_SPEED, 1000)

\* the ramp that adds 15 % of the target instead of 15 % of the difference
RampThrottle_NoDifference(over, throttlePercent) ==
    LET targetThrottle == Min(9500, over * 4)
    IN  throttlePercent + MulDiv(targetThrottle, 15, 100)

\* 7. Throttling Logic, over the threshold: ramp toward 4 % per degree over
RampThrottle(over, throttlePercent) ==
    LET targetThrottle == Min(9500, over * 4)
    IN  throttlePercent + MulDiv(targetThrottle - throttlePercent, 15, 100)

\* the release that never snaps a small throttle to 0
ReleaseThrottle_NoSnap(throttlePercent) ==
    MulDiv(throttlePercent, 92, 100)

\* 7. Throttling Logic, well below the threshold: release, snapping to 0
ReleaseThrottle(throttlePercent) ==
    LET decayed == MulDiv(throttlePercent, 92, 100)
    IN  IF decayed < 50 THEN 0 ELSE decayed

\* 7. Throttling Logic: the new throttlePercent from the new CPU temperature
NewThrottlePercent(newCpuTemp, effectiveThrottleTemp, throttlePercent) ==
    IF NGt(newCpuTemp, effectiveThrottleTemp)
    THEN RampThrottle(newCpuTemp - effectiveThrottleTemp, throttlePercent)
    ELSE IF NLt(newCpuTemp, effectiveThrottleTemp - 300) /\ throttlePercent > 0
    THEN ReleaseThrottle(throttlePercent)
    ELSE throttlePercent

\* 2. fan response: fans ease toward the target of the current temperature
NewFanSpeed(state, maxCpuTemp, deltaTime) ==
    LET targetFanSpeed == calculateFanSpeed(state.cpuTemp, maxCpuTemp, state.ambientTemp)
        \* 0.08 * deltaTime * 10, in percent
        fanResponseRate == MulDiv(deltaTime, 8, 100)
    IN  NAdd(state.fanSpeed,
             NMulDiv(NSub(targetFanSpeed, state.fanSpeed), fanResponseRate, 100))

updateThermalState(state, p) ==
    LET ambientTemp == state.ambientTemp
        heat == calculateHeatGenerated(p.cpuPower, p.gpuPower, p.memoryHeat,
                                       p.psuHeatWaste, p.storageHeat)
        fanSpeed == NewFanSpeed(state, p.maxCpuTemp, p.deltaTime)
        coolingCapacity == calculateCoolingCapacity(p.cooling, p.fanCount, fanSpeed,
                                                    p.airflowQuality, state.caseTemp)
        equilibriumTemp == calculateEquilibriumTemp(heat.cpu, p.cooling, p.fanCount,
                               fanSpeed, p.airflowQuality, ambientTemp, state.caseTemp)
        coolerMass == IF p.cooling # Null THEN COOLING[p.cooling].thermalMass ELSE 100
        responseTime == IF p.cooling = Null THEN 1000
                        ELSE IF COOLING[p.cooling].responseTime # 0
                        THEN COOLING[p.cooling].responseTime ELSE 2000
        totalThermalMass == CPU_PACKAGE_MASS + coolerMass
        tempDiff == NSub(equilibriumTemp, state.cpuTemp)
        \* approachRate * deltaTime, per-mille
        approachStep == (APPROACH_RATE * p.deltaTime * 1000)
                        \div (totalThermalMass * responseTime)
        tempChange == NMulDiv(tempDiff, approachStep, 1000)
        newCpuTemp == NMax(ambientTemp, NAdd(state.cpuTemp, tempChange))
        effectiveThrottleTemp == IF p.throttleTemp # 0 THEN p.throttleTemp
                                 ELSE p.maxCpuTemp - 500
        newThrottlePercent ==
            NewThrottlePercent(newCpuTemp, effectiveThrottleTemp, state.throttlePercent)
        internalHeat == NAdd(heat.system, MulDiv(heat.cpu + heat.gpu, 15, 100))
        caseCooling == NMulDiv(NSub(state.caseTemp, ambientTemp),
                               p.fanCount * 12 * p.airflowQuality, 1000)
        caseNetHeat == NSub(internalHeat, caseCooling)
        newCaseTemp == NAdd(state.caseTemp,
                            NMulDiv(caseNetHeat, p.deltaTime \div 5, 200 * CASE_THERMAL_MASS))
    IN  [ state EXCEPT
            !.cpuTemp = newCpuTemp,
            !.caseTemp = NMax(ambientTemp, NMin(newCaseTemp, ambientTemp + 2500)),
            !.fanSpeed = fanSpeed,
            !.throttlePercent = newThrottlePercent,
            !.isThrottling = newThrottlePercent > 0,
            !.heatGenerated = heat.cpu,
            !.equilibriumTemp = equilibriumTemp,
            !.coolingCapacity = coolingCapacity,
            !.thermalHeadroom = NMax(0, NSub(p.maxCpuTemp, equilibriumTemp)) ]

setAmbientTemp(state, temp) == [ state EXCEPT !.ambientTemp = temp ]

(***************************************************************************)
(* Warning generator (warnings.js)                                         *)
(***************************************************************************)
Warning(type, severity) == [ type |-> type, severity |-> severity ]

\* the PSU load check with strict comparisons
checkPsuLoadWarning_Strict(sustainedLoad) ==
    IF NGt(sustainedLoad, 9500) THEN << Warning("psu_load_critical", "danger") >>
    ELSE IF NGt(sustainedLoad, 8000) THEN << Warning("psu_load_high", "warning") >>
    ELSE << >>

checkPsuLoadWarning(sustainedLoad) ==
    IF NGe(sustainedLoad, 9500) THEN << Warning("psu_load_critical", "danger") >>
    ELSE IF NGe(sustainedLoad, 8000) THEN << Warning("psu_load_high", "warning") >>
    ELSE << >>

checkPsuTransientWarning(transientLoad, sustainedLoad, psu) ==
    IF NGe(transientLoad, TransientLimit(psu))
    THEN << Warning("psu_transient", "danger") >>
    ELSE IF NGe(transientLoad, 9000) /\ NGt(transientLoad, NAdd(sustainedLoad, 1000))
    THEN << Warning("psu_transient", "warning") >>
    ELSE << >>

checkThermalWarning(cpuTemp, maxTemp, isThrottling) ==
    IF isThrottling THEN << Warning("thermal_throttle", "danger") >>
    ELSE IF NGe(NMulDiv(cpuTemp, 1000, maxTemp), 850)
    THEN << Warning("thermal_warning", "warning") >>
    ELSE << >>

checkEquilibriumWarning(equilibriumTemp, maxTemp) ==
    IF NGt(equilibriumTemp, maxTemp)
    THEN << Warning("equilibrium_exceeded", "danger") >> ELSE << >>

checkCoolingWarning(heatGenerated, coolingCapacity, equilibriumTemp, maxTemp, cooling) ==
    IF cooling = Null THEN << >>
    ELSE IF NGe(NMulDiv(heatGenerated, 1000, coolingCapacity), 900)
            /\ NGt(equilibriumTemp, maxTemp - 800)
    THEN << Warning("cooling_marginal", "warning") >>
    ELSE IF COOLING[cooling].maxRecommendedTdp # 0
            /\ heatGenerated > COOLING[cooling].maxRecommendedTdp
    THEN << Warning("cooling_insufficient", "warning") >>
    ELSE << >>

\* the memory check whose default supported list is DDR5
checkMemoryCompatibilityWarning_DefaultDdr5(cpu, memory) ==
    IF cpu = Null \/ memory = Null THEN << >>
    ELSE LET supportedTypes == IF CPUS[cpu].supportedMemory # None
                               THEN CPUS[cpu].supportedMemory[1] ELSE {"DDR5"}
         IN  IF MEMORY[memory].type \notin supportedTypes
             THEN << Warning("memory_incompatible", "danger") >> ELSE << >>

checkMemoryCompatibilityWarning(cpu, memory) ==
    IF cpu = Null \/ memory = Null THEN << >>
    ELSE LET supportedTypes == IF CPUS[cpu].supportedMemory # None
                               THEN CPUS[cpu].supportedMemory[1] ELSE {"DDR4"}
         IN  IF MEMORY[memory].type \notin supportedTypes
             THEN << Warning("memory_incompatible", "danger") >> ELSE << >>

maxSafeTempOf(cpu) ==
    IF cpu # Null /\ CPUS[cpu].maxSafeTemp # 0 THEN CPUS[cpu].maxSafeTemp ELSE 9000

throttleTempOf(cpu) ==
    IF cpu # Null /\ CPUS[cpu].throttleTemp # 0 THEN CPUS[cpu].throttleTemp ELSE 9500

\* power, thermal, psuInfo are nullable (None or a 1-tuple)
generateWarnings(power, thermal, psuInfo, psu, cooling, cpu, memory) ==
    IF power = None \/ thermal = None \/ psuInfo = None THEN << >>
    ELSE
    LET t == thermal[1]
        capacity == IF Truthy(t.coolingCapacity) THEN t.coolingCapacity
                    ELSE IF cooling # Null /\ COOLING[cooling].heatDissipation # 0
                    THEN COOLING[cooling].heatDissipation ELSE 10000
    IN  checkMemoryCompatibilityWarning(cpu, memory)
        \o (IF cooling # Null
            THEN checkEquilibriumWarning(t.equilibriumTemp, maxSafeTempOf(cpu))
            ELSE << >>)
        \o checkThermalWarning(t.cpuTemp, maxSafeTempOf(cpu), t.isThrottling)
        \o checkCoolingWarning(t.heatGenerated, capacity, t.equilibriumTemp,
                               maxSafeTempOf(cpu), cooling)
        \o checkPsuLoadWarning(psuInfo[1].loadPercent)
        \o checkPsuTransientWarning(psuInfo[1].transientLoad, psuInfo[1].loadPercent, psu)

(***************************************************************************)
(* Store and simulation loop (state.js)                                    *)
(***************************************************************************)
MAX_HISTORY == 300
HISTORY_RATE == 1000

\* bounds of the model
MaxTicks == 2
MaxOps == 2
MaxSamples == 304
MaxHoldTicks == 70
MaxThermalSteps == 2

VARIABLES
    state,               \* the store's state record (createSimulatorState)
    simulationInterval,  \* TRUE while the setInterval timer is installed
    notifications,       \* number of store.set calls made by the last operation
    lastOp,              \* the last operation and its arguments
    tickCount,           \* ticks (samples, thermal updates) taken so far
    opCount,             \* user operations (after start-up) taken so far
    subscribers,         \* the store's subscriber array, in subscription order
    delivered,           \* what the last store.set found and whom it called
    clock                \* Date.now(), lastTickTime, lastHistoryTime (ms)

vars ==
    << state, simulationInterval, notifications, lastOp, tickCount, opCount,
       subscribers, delivered, clock >>

\* let lastTickTime = 0; let lastHistoryTime = 0; at a wall-clock origin;
\* runTime is the wall-clock time passed so far while the simulation was
\* running and not paused
Clock0 == [ now |-> 0, lastTickTime |-> 0, lastHistoryTime |-> 0, runTime |-> 0 ]

\* no store.set observed yet
NoDelivery == [ before |-> << >>, calls |-> << >> ]

Op(name, type, id) == [ name |-> name, type |-> type, id |-> id ]

Workloads == DOMAIN WORKLOAD_PROFILES
HighLoad == {"rendering", "stress", "compiling", "streaming"}
EmptyBoost == [ currentPower |-> 0, boostTimeRemaining |-> 0, boostActive |-> FALSE ]

\* hardwareData.memory in catalog order
MemoryOrder == << "ddr4", "ddr5", "ddr3" >>

createSimulatorState(defaultCpu, defaultGpu, defaultPsu, defaultCooling, defaultMemory) ==
    [ cpu |-> defaultCpu, gpu |-> defaultGpu, psu |-> defaultPsu,
      cooling |-> defaultCooling, memory |-> defaultMemory,
      storageConfig |-> [ nvme |-> 1, sata |-> 0, hdd |-> 0 ],
      fanCount |-> 4, ambientTemp |-> 2500, airflowQuality |-> 850,
      workload |-> "gaming",
      isRunning |-> FALSE, isPaused |-> FALSE,
      simulationSpeed |-> 1000, simulatedTime |-> 0,
      boostState |-> EmptyBoost,
      power |-> None, psuInfo |-> None, thermal |-> None,
      warnings |-> << >>,
      powerHistory |-> << >>, tempHistory |-> << >>, historyIndex |-> -1 ]

\* state.power?.cpu || 0
PowerCpuOf(st) == IF st.power # None THEN st.power[1].cpu ELSE 0

PowerConfig(st, fanSpeed) ==
    [ cpu |-> st.cpu, gpu |-> st.gpu, memory |-> st.memory, workload |-> st.workload,
      fanCount |-> st.fanCount, storageConfig |-> st.storageConfig,
      fanSpeed |-> fanSpeed, ambientTemp |-> st.ambientTemp ]

\* addPowerHistory that evicts as soon as MAX_HISTORY entries are held
addPowerHistory_EvictEarly(st, power, temp) ==
    LET newPowerHistory == Append(st.powerHistory, [ value |-> power, time |-> st.simulatedTime ])
        newTempHistory == Append(st.tempHistory, [ value |-> temp, time |-> st.simulatedTime ])
    IN  [ st EXCEPT
            !.powerHistory = IF Len(newPowerHistory) >= MAX_HISTORY
                             THEN Tail(newPowerHistory) ELSE newPowerHistory,
            !.tempHistory = IF Len(newTempHistory) >= MAX_HISTORY
                            THEN Tail(newTempHistory) ELSE newTempHistory ]

addPowerHistory(st, power, temp) ==
    LET newPowerHistory == Append(st.powerHistory, [ value |-> power, time |-> st.simulatedTime ])
        newTempHistory == Append(st.tempHistory, [ value |-> temp, time |-> st.simulatedTime ])
    IN  [ st EXCEPT
            !.powerHistory = IF Len(newPowerHistory) > MAX_HISTORY
                             THEN Tail(newPowerHistory) ELSE newPowerHistory,
            !.tempHistory = IF Len(newTempHistory) > MAX_HISTORY
                            THEN Tail(newTempHistory) ELSE newTempHistory ]

initializeSimulation(st) ==
    LET power == calculateTotalPower(PowerConfig(st, 3000), st.boostState, 0)
    IN  [ st EXCEPT
            !.thermal = Some(createThermalState(st.ambientTemp)),
            !.power = Some(power),
            !.psuInfo = Some(calculateWallPower(power.sustainedTotal, power.transientPeak,
                                                st.psu)) ]

\* the boost update whose countdown never clears boostActive
UpdateBoostState_NoDeactivate(st, deltaTime) ==
    LET b == st.boostState
        duration == IF st.cpu # Null THEN CPUS[st.cpu].shortBoostDuration ELSE 0
        isHighLoad == st.workload \in HighLoad
    IN  IF isHighLoad /\ duration > 0
        THEN IF ~b.boostActive /\ b.boostTimeRemaining = 0
             THEN [ b EXCEPT !.boostTimeRemaining = duration, !.boostActive = TRUE ]
             ELSE IF b.boostTimeRemaining > 0
             THEN [ b EXCEPT !.boostTimeRemaining = Max(0, b.boostTimeRemaining - deltaTime) ]
             ELSE b
        ELSE IF ~isHighLoad
        THEN [ currentPower |-> PowerCpuOf(st), boostTimeRemaining |-> 0,
               boostActive |-> FALSE ]
        ELSE b

\* Update boost state based on workload (state.js 845-864)
UpdateBoostState(st, deltaTime) ==
    LET b == st.boostState
        duration == IF st.cpu # Null THEN CPUS[st.cpu].shortBoostDuration ELSE 0
        isHighLoad == st.workload \in HighLoad
    IN  IF isHighLoad /\ duration > 0
        THEN IF ~b.boostActive /\ b.boostTimeRemaining = 0
             THEN [ b EXCEPT !.boostTimeRemaining = duration, !.boostActive = TRUE ]
             ELSE IF b.boostTimeRemaining > 0
             THEN LET remaining == Max(0, b.boostTimeRemaining - deltaTime)
                  IN  [ b EXCEPT !.boostTimeRemaining = remaining,
                                 !.boostActive = IF remaining = 0 THEN FALSE
                                                 ELSE b.boostActive ]
             ELSE b
        ELSE IF ~isHighLoad
        THEN [ currentPower |-> PowerCpuOf(st), boostTimeRemaining |-> 0,
               boostActive |-> FALSE ]
        ELSE b

\* Apply throttling to power draw "for display" (state.js 878-893)
ThrottledPower(st, power) ==
    IF st.thermal # None /\ st.thermal[1].isThrottling
    THEN LET tp == st.thermal[1].throttlePercent
             throttledCpu == applyThrottling(power.cpu, tp)
             throttledGpu == applyThrottling(power.gpu, MulDiv(tp, 35, 100))
             multiplier == IF st.gpu # Null /\ GPUS[st.gpu].transientMultiplier # 0
                           THEN GPUS[st.gpu].transientMultiplier ELSE 1500
             rest == NAdd(power.memory + power.motherboard + power.storage
                          + power.peripherals + power.rgb, power.fans)
         IN  [ power EXCEPT
                 !.cpu = throttledCpu, !.gpu = throttledGpu,
                 !.sustainedTotal = NAdd(throttledCpu + throttledGpu, rest),
                 !.transientPeak =
                     NAdd(throttledCpu + MulDiv(throttledGpu, multiplier, 1000), rest) ]
    ELSE power

\* Calculate power with current thermal state (state.js 866-893)
SimulationPower(st, boostState) ==
    LET fanSpeed == IF st.thermal # None /\ Truthy(st.thermal[1].fanSpeed)
                    THEN st.thermal[1].fanSpeed ELSE 3000
        throttlePercent == IF st.thermal # None THEN st.thermal[1].throttlePercent ELSE 0
    IN  ThrottledPower(st,
            calculateTotalPower(PowerConfig(st, fanSpeed),
                [ boostState EXCEPT !.currentPower = PowerCpuOf(st) ], throttlePercent))

\* Update thermal state (state.js 899-914)
SimulationThermal(st, power, psuInfo, deltaTime) ==
    updateThermalState(
        IF st.thermal # None THEN st.thermal[1] ELSE createThermalState(st.ambientTemp),
        [ cpuPower |-> power.cpu, gpuPower |-> power.gpu,
          memoryHeat |-> power.memoryHeat, psuHeatWaste |-> psuInfo.heatWaste,
          storageHeat |-> MulDiv(power.storage, 6, 10),
          cooling |-> st.cooling, fanCount |-> st.fanCount,
          maxCpuTemp |-> maxSafeTempOf(st.cpu), throttleTemp |-> throttleTempOf(st.cpu),
          airflowQuality |-> st.airflowQuality, deltaTime |-> deltaTime ])

\* the object returned by calculateSimulationState (state.js 916-945)
SimulationResult(st, boostState, power, psuInfo, newThermal) ==
    [ power |-> power, psuInfo |-> psuInfo, thermal |-> newThermal,
      boostState |-> [ boostState EXCEPT !.currentPower = power.cpu ],
      warnings |-> generateWarnings(Some(power), Some(newThermal), Some(psuInfo),
                                    st.psu, st.cooling, st.cpu, st.memory) ]

\* calculateSimulationState once power is known: PSU info, thermal, result
SimulationFromPower(st, deltaTime, boostState, power, psuInfo) ==
    SimulationResult(st, boostState, power, psuInfo,
                     SimulationThermal(st, power, psuInfo, deltaTime))

\* calculateSimulationState once the boost window is updated
SimulationFromBoost(st, deltaTime, boostState, power) ==
    SimulationFromPower(st, deltaTime, boostState, power,
        calculateWallPower(power.sustainedTotal, power.transientPeak, st.psu))

calculateSimulationState(st, deltaTime) ==
    SimulationFromBoost(st, deltaTime, UpdateBoostState(st, deltaTime),
                        SimulationPower(st, UpdateBoostState(st, deltaTime)))

\* the store.set of an immediateUpdate that commits the whole recomputed
\* thermal state
CommitImmediate_CommitThermal(st, thermal, result) ==
    [ st EXCEPT
        !.power = Some(result.power),
        !.psuInfo = Some(result.psuInfo),
        !.warnings = result.warnings,
        !.thermal = Some(result.thermal),
        !.boostState = result.boostState ]

\* the store.set of immediateUpdate (state.js 989-1005)
CommitImmediate(st, thermal, result) ==
    [ st EXCEPT
        !.power = Some(result.power),
        !.psuInfo = Some(result.psuInfo),
        !.warnings = result.warnings,
        !.thermal = Some([ thermal EXCEPT
                             !.equilibriumTemp = result.thermal.equilibriumTemp,
                             !.coolingCapacity = result.thermal.coolingCapacity,
                             !.thermalHeadroom = result.thermal.thermalHeadroom ]),
        !.boostState = result.boostState ]

immediateUpdate(st) ==
    CommitImmediate(st,
        IF st.thermal # None THEN st.thermal[1] ELSE createThermalState(st.ambientTemp),
        calculateSimulationState(st, 0))

\* resetSimulation that keeps the simulated clock and the history cursor
resetSimulation_KeepClock(st) ==
    immediateUpdate([ st EXCEPT
        !.thermal = Some(createThermalState(st.ambientTemp)),
        !.powerHistory = << >>, !.tempHistory = << >>,
        !.boostState = EmptyBoost ])

resetSimulation(st) ==
    immediateUpdate([ st EXCEPT
        !.thermal = Some(createThermalState(st.ambientTemp)),
        !.powerHistory = << >>, !.tempHistory = << >>,
        !.simulatedTime = 0, !.boostState = EmptyBoost, !.historyIndex = -1 ])

checkMemoryCompatibility(cpu, memory) ==
    IF cpu = Null \/ memory = Null THEN TRUE
    ELSE LET supportedTypes == IF CPUS[cpu].supportedMemory # None
                               THEN CPUS[cpu].supportedMemory[1] ELSE {"DDR4"}
         IN  MEMORY[memory].type \in supportedTypes

\* hardwareData.memory.find(m => selected.supportedMemory?.includes(m.type))
FindCompatibleMemory(cpu) ==
    LET ok == { i \in 1..Len(MemoryOrder) :
                  /\ CPUS[cpu].supportedMemory # None
                  /\ MEMORY[MemoryOrder[i]].type \in CPUS[cpu].supportedMemory[1] }
    IN  IF ok = {} THEN Null
        ELSE MemoryOrder[CHOOSE i \in ok : \A j \in ok : i <= j]

CatalogIds(type) ==
    CASE type = "cpu" -> DOMAIN CPUS
      [] type = "gpu" -> DOMAIN GPUS
      [] type = "psu" -> DOMAIN PSUS
      [] type = "cooling" -> DOMAIN COOLING
      [] type = "memory" -> DOMAIN MEMORY

\* selectHardware that keeps the boost window of the previous CPU
selectHardware_KeepBoost(st, type, id) ==
    LET st1 == [ st EXCEPT ![type] = id ]
        st2 == IF type = "cpu"
               THEN LET found == FindCompatibleMemory(id)
                    IN  [ st1 EXCEPT
                            !.memory = IF ~checkMemoryCompatibility(id, st.memory)
                                          /\ found # Null
                                       THEN found ELSE st.memory ]
               ELSE st1
    IN  immediateUpdate(st2)

\* the state left by selectHardware for an id found in the catalog
selectHardware(st, type, id) ==
    LET st1 == [ st EXCEPT ![type] = id ]
        st2 == IF type = "cpu"
               THEN LET found == FindCompatibleMemory(id)
                    IN  [ st1 EXCEPT
                            !.boostState = EmptyBoost,
                            !.memory = IF ~checkMemoryCompatibility(id, st.memory)
                                          /\ found # Null
                                       THEN found ELSE st.memory ]
               ELSE st1
    IN  immediateUpdate(st2)

\* the state left by updateConfig({ [key]: value })
updateConfig(st, key, value) ==
    LET st1 == [ st EXCEPT ![key] = value ]
        boosting == value \in HighLoad /\ st1.cpu # Null
                    /\ CPUS[st1.cpu].shortBoostDuration > 0
        st2 == IF key = "workload"
               THEN [ st1 EXCEPT !.boostState =
                        [ currentPower |-> PowerCpuOf(st1),
                          boostTimeRemaining |-> IF boosting
                                                 THEN CPUS[st1.cpu].shortBoostDuration
                                                 ELSE 0,
                          boostActive |-> boosting ] ]
               ELSE st1
        st3 == IF key = "ambientTemp"
               THEN [ st2 EXCEPT !.thermal =
                        Some(setAmbientTemp(IF st1.thermal # None THEN st1.thermal[1]
                                            ELSE createThermalState(value), value)) ]
               ELSE st2
    IN  immediateUpdate(st3)

(***************************************************************************)
(* Inputs                                                                  *)
(***************************************************************************)
SelectInputs ==
    { << "cpu", "cpuA" >>, << "cpu", "cpuB" >>, << "memory", "ddr5" >>,
      << "cpu", "unknown" >> }

ConfigInputs ==
    { << "workload", "idle" >>, << "workload", "stress" >>, << "ambientTemp", 3500 >> }

\* default CPU, cooler and PSU that createSimulatorState finds in the catalog
DefaultHardware == { << "cpuA", "air", "psu850" >>, << "cpuB", "aio", "psu550" >> }

\* wall-clock milliseconds between two ticks (timer period, stalled timer)
RawDeltas == { 100, 2500 }
Speeds == { 50000 }

\* largest |fanSpeed| (centipercent) a tick of the model may produce
MaxFanMagnitude == 200000

Tickable(fanSpeed) ==
    IF fanSpeed = NaN THEN TRUE
    ELSE fanSpeed <= MaxFanMagnitude /\ fanSpeed >= -MaxFanMagnitude

(***************************************************************************)
(* Actions of the store                                                    *)
(***************************************************************************)
Init ==
    /\ \E d \in DefaultHardware :
          state = createSimulatorState(d[1], "gpuA", d[3], d[2], "ddr4")
    /\ simulationInterval = FALSE
    /\ notifications = 0
    /\ lastOp = Op("createSimulatorState", "", "")
    /\ tickCount = 0
    /\ opCount = 0
    /\ subscribers = << >>
    /\ delivered = NoDelivery
    /\ clock = Clock0

InitializeSimulation ==
    /\ state.thermal = None
    /\ state' = initializeSimulation(state)
    /\ notifications' = 1
    /\ lastOp' = Op("initializeSimulation", "", "")
    /\ UNCHANGED << simulationInterval, tickCount, opCount >>
    /\ UNCHANGED << subscribers, delivered, clock >>

StartSimulation ==
    /\ state.thermal # None
    /\ lastOp' = Op("startSimulation", "", "")
    /\ IF simulationInterval
       THEN UNCHANGED << state, simulationInterval, clock >> /\ notifications' = 0
       ELSE /\ state' = [ state EXCEPT !.isRunning = TRUE, !.isPaused = FALSE ]
            /\ simulationInterval' = TRUE
            /\ notifications' = 1
            /\ clock' = [ clock EXCEPT !.lastTickTime = clock.now,
                                        !.lastHistoryTime = clock.now ]
    /\ UNCHANGED << tickCount, opCount >>
    /\ UNCHANGED << subscribers, delivered >>

StopSimulation ==
    /\ state.thermal # None
    /\ opCount < MaxOps
    /\ opCount' = opCount + 1
    /\ simulationInterval' = FALSE
    /\ state' = [ state EXCEPT !.isRunning = FALSE ]
    /\ notifications' = 1
    /\ lastOp' = Op("stopSimulation", "", "")
    /\ UNCHANGED tickCount
    /\ UNCHANGED << subscribers, delivered, clock >>

\* a resume that keeps the time of the last tick before the pause
togglePauseClock_KeepLastTick(st, c) == c

\* if (state.isPaused) { lastTickTime = Date.now(); }
togglePauseClock(st, c) ==
    IF st.isPaused THEN [ c EXCEPT !.lastTickTime = c.now ] ELSE c

TogglePause ==
    /\ state.thermal # None
    /\ opCount < MaxOps
    /\ opCount' = opCount + 1
    /\ state' = [ state EXCEPT !.isPaused = ~state.isPaused ]
    /\ clock' = togglePauseClock(state, clock)
    /\ notifications' = 1
    /\ lastOp' = Op("togglePause", "", "")
    /\ UNCHANGED << simulationInterval, tickCount >>
    /\ UNCHANGED << subscribers, delivered >>

\* the tick guard that forgets the pause flag
TickSkipped_IgnorePause(st) == ~st.isRunning

\* if (!state.isRunning || state.isPaused) return;
TickSkipped(st) == ~st.isRunning \/ st.isPaused

\* the store.set of a live tick and the periodic history sample
\* (state.js 962-973)
CommitTick(st, deltaTime, appendHistory, result) ==
    LET st1 == [ st EXCEPT
                   !.power = Some(result.power),
                   !.psuInfo = Some(result.psuInfo),
                   !.thermal = Some(result.thermal),
                   !.boostState = result.boostState,
                   !.warnings = result.warnings,
                   !.simulatedTime = st.simulatedTime + deltaTime ]
    IN  IF appendHistory
        THEN addPowerHistory(st1, result.power.sustainedTotal, result.thermal.cpuTemp)
        ELSE st1

\* Math.min(rawDelta, 2) * state.simulationSpeed
DeltaTime(st, rawDelta) == MulDiv(Min(rawDelta, 2000), st.simulationSpeed, 1000)

\* the timer fires: simulationTick with rawDelta ms since the previous tick;
\* the model follows at most maxTicks live ticks
TickStep(maxTicks, rawDelta, historyDue) ==
    /\ simulationInterval
    /\ lastOp' = Op("simulationTick", "", "")
    /\ IF TickSkipped(state)
       THEN /\ UNCHANGED << state, tickCount >>
            /\ notifications' = 0
       ELSE /\ tickCount < maxTicks
            /\ Tickable(NewFanSpeed(state.thermal[1], maxSafeTempOf(state.cpu),
                                     DeltaTime(state, rawDelta)))
            /\ state' = CommitTick(state, DeltaTime(state, rawDelta),
                                   historyDue \/ rawDelta >= HISTORY_RATE,
                                   calculateSimulationState(state, DeltaTime(state, rawDelta)))
            /\ notifications' = IF historyDue \/ rawDelta >= HISTORY_RATE THEN 2 ELSE 1
            /\ tickCount' = tickCount + 1
    /\ UNCHANGED << simulationInterval, opCount >>
    /\ UNCHANGED << subscribers, delivered >>

\* a tick whose rawDelta is an input: the clock is left where it is
TickWithin(maxTicks, rawDelta, historyDue) ==
    TickStep(maxTicks, rawDelta, historyDue) /\ UNCHANGED clock

SimulationTick(rawDelta, historyDue) == TickWithin(MaxTicks, rawDelta, historyDue)

ResetSimulation ==
    /\ state.thermal # None
    /\ opCount < MaxOps
    /\ state' = resetSimulation(state)
    /\ notifications' = 2
    /\ lastOp' = Op("resetSimulation", "", "")
    /\ opCount' = opCount + 1
    /\ UNCHANGED << simulationInterval, tickCount >>
    /\ UNCHANGED << subscribers, delivered, clock >>

SelectHardware(type, id) ==
    /\ state.thermal # None
    /\ opCount < MaxOps
    /\ lastOp' = Op("selectHardware", type, id)
    /\ IF id \in CatalogIds(type)
       THEN state' = selectHardware(state, type, id) /\ notifications' = 2
       ELSE UNCHANGED state /\ notifications' = 0
    /\ opCount' = opCount + 1
    /\ UNCHANGED << simulationInterval, tickCount >>
    /\ UNCHANGED << subscribers, delivered, clock >>

UpdateConfig(key, value) ==
    /\ state.thermal # None
    /\ opCount < MaxOps
    /\ state' = updateConfig(state, key, value)
    /\ notifications' = IF key \in {"workload", "ambientTemp"} THEN 3 ELSE 2
    /\ lastOp' = Op("updateConfig", key, "")
    /\ opCount' = opCount + 1
    /\ UNCHANGED << simulationInterval, tickCount >>
    /\ UNCHANGED << subscribers, delivered, clock >>

SetSimulationSpeed(speed) ==
    /\ state.thermal # None
    /\ opCount < MaxOps
    /\ opCount' = opCount + 1
    \* Math.max(0.25, Math.min(speed, 10)): NaN passes through both
    /\ state' = [ state EXCEPT !.simulationSpeed = NMax(250, NMin(speed, 10000)) ]
    /\ notifications' = 1
    /\ lastOp' = Op("setSimulationSpeed", "", "")
    /\ UNCHANGED << simulationInterval, tickCount >>
    /\ UNCHANGED << subscribers, delivered, clock >>

\* setHistoryIndex that accepts the index one past the newest sample
setHistoryIndex_Inclusive(st, index) ==
    IF NGe(index, 0) /\ NLe(index, Len(st.powerHistory))
    THEN [ st EXCEPT !.historyIndex = index, !.isPaused = TRUE ]
    ELSE [ st EXCEPT !.historyIndex = -1 ]

setHistoryIndex(st, index) ==
    IF NGe(index, 0) /\ NLt(index, Len(st.powerHistory))
    THEN [ st EXCEPT !.historyIndex = index, !.isPaused = TRUE ]
    ELSE [ st EXCEPT !.historyIndex = -1 ]

SetHistoryIndex(index) ==
    /\ state.thermal # None
    /\ opCount < MaxOps
    /\ opCount' = opCount + 1
    /\ state' = setHistoryIndex(state, index)
    /\ notifications' = 1
    /\ lastOp' = Op("setHistoryIndex", "", ToString(index))
    /\ UNCHANGED << simulationInterval, tickCount >>
    /\ UNCHANGED << subscribers, delivered, clock >>

Next ==
    \/ InitializeSimulation
    \/ StartSimulation
    \/ StopSimulation
    \/ TogglePause
    \/ \E rawDelta \in RawDeltas : SimulationTick(rawDelta, FALSE)
    \/ ResetSimulation
    \/ \E in \in SelectInputs : SelectHardware(in[1], in[2])
    \/ \E in \in ConfigInputs : UpdateConfig(in[1], in[2])
    \/ \E speed \in Speeds : SetSimulationSpeed(speed)
    \/ \E index \in {0, 5} : SetHistoryIndex(index)

Spec == Init /\ [][Next]_vars

(***************************************************************************)
(* updateThermalState as a pure function: any prior thermal state, any     *)
(* heat and cooling inputs, any deltaTime >= 0.                            *)
(***************************************************************************)
PriorThermalStates ==
    { [ createThermalState(2500) EXCEPT
          !.cpuTemp = t, !.fanSpeed = f, !.throttlePercent = tp,
          !.isThrottling = tp > 0 ] :
      t \in {2000, 2500, 6000, 9800}, f \in {2000, 10000}, tp \in {0, 4000} }

ThermalParams ==
    { [ cpuPower |-> cp, gpuPower |-> 2000, memoryHeat |-> 165, psuHeatWaste |-> 1000,
        storageHeat |-> 105, cooling |-> k, fanCount |-> 4, maxCpuTemp |-> 9000,
        throttleTemp |-> tt, airflowQuality |-> 850, deltaTime |-> dt ] :
      cp \in {0, 12500}, k \in {Null, "air"}, tt \in {0, 9500},
      dt \in {0, 100, 2000, 20000} }

InitThermal ==
    /\ \E t \in PriorThermalStates :
          state = [ createSimulatorState("cpuB", "gpuA", "psu850", "air", "ddr4")
                      EXCEPT !.thermal = Some(t) ]
    /\ simulationInterval = FALSE
    /\ notifications = 0
    /\ lastOp = Op("createThermalState", "", "")
    /\ tickCount = 0
    /\ opCount = 0
    /\ subscribers = << >>
    /\ delivered = NoDelivery
    /\ clock = Clock0

UpdateThermalState(p) ==
    /\ tickCount < MaxThermalSteps
    /\ Tickable(NewFanSpeed(state.thermal[1], p.maxCpuTemp, p.deltaTime))
    /\ state' = [ state EXCEPT !.thermal = Some(updateThermalState(state.thermal[1], p)) ]
    /\ lastOp' = Op("updateThermalState", "", "")
    /\ tickCount' = tickCount + 1
    /\ UNCHANGED << simulationInterval, notifications, opCount >>
    /\ UNCHANGED << subscribers, delivered, clock >>

NextThermal == \E p \in ThermalParams : UpdateThermalState(p)

SpecThermal == InitThermal /\ [][NextThermal]_vars

(***************************************************************************)
(* The CPU temperature held at a fixed offset from the throttle threshold: *)
(* updateThermalState with deltaTime = 0 leaves cpuTemp where it is and    *)
(* runs the throttling logic once per call.                                *)
(***************************************************************************)
HoldThrottleTemp == CPUS["cpuA"].throttleTemp
HoldOffsets == { -500, 1000 }
HoldThrottleInits == { 0, 1, 50, 51, 700, 2500, 4000, 4001, 6000, 8000, 9500 }

HoldParams ==
    [ cpuPower |-> 12500, gpuPower |-> 2000, memoryHeat |-> 165, psuHeatWaste |-> 1000,
      storageHeat |-> 105, cooling |-> "air", fanCount |-> 4, maxCpuTemp |-> 10000,
      throttleTemp |-> HoldThrottleTemp, airflowQuality |-> 850, deltaTime |-> 0 ]

InitHold ==
    /\ \E off \in HoldOffsets, tp \in HoldThrottleInits :
          state = [ createSimulatorState("cpuA", "gpuA", "psu850", "air", "ddr4")
                      EXCEPT !.thermal = Some([ createThermalState(2500) EXCEPT
                          !.cpuTemp = HoldThrottleTemp + off,
                          !.throttlePercent = tp, !.isThrottling = tp > 0 ]) ]
    /\ simulationInterval = FALSE
    /\ notifications = 0
    /\ lastOp = Op("createThermalState", "", "")
    /\ tickCount = 0
    /\ opCount = 0
    /\ subscribers = << >>
    /\ delivered = NoDelivery
    /\ clock = Clock0

HoldTick ==
    /\ tickCount < MaxHoldTicks
    /\ state' = [ state EXCEPT
                    !.thermal = Some(updateThermalState(state.thermal[1], HoldParams)) ]
    /\ lastOp' = Op("updateThermalState", "", "")
    /\ tickCount' = tickCount + 1
    /\ UNCHANGED << simulationInterval, notifications, opCount >>
    /\ UNCHANGED << subscribers, delivered, clock >>

NextHold == HoldTick

SpecHold == InitHold /\ [][NextHold]_vars

(***************************************************************************)
(* addPowerHistory called MaxSamples times; the n-th call appends the      *)
(* samples SamplePower(n) and SampleTemp(n).                               *)
(***************************************************************************)
SamplePower(n) == 30000 + n
SampleTemp(n) == 2500 + n

InitHistory ==
    /\ state = initializeSimulation(
                   createSimulatorState("cpuA", "gpuA", "psu850", "air", "ddr4"))
    /\ simulationInterval = FALSE
    /\ notifications = 1
    /\ lastOp = Op("initializeSimulation", "", "")
    /\ tickCount = 0
    /\ opCount = 0
    /\ subscribers = << >>
    /\ delivered = NoDelivery
    /\ clock = Clock0

AddPowerHistory ==
    /\ tickCount < MaxSamples
    /\ state' = addPowerHistory(state, SamplePower(tickCount + 1), SampleTemp(tickCount + 1))
    /\ notifications' = 1
    /\ lastOp' = Op("addPowerHistory", "", "")
    /\ tickCount' = tickCount + 1
    /\ UNCHANGED << simulationInterval, opCount >>
    /\ UNCHANGED << subscribers, delivered, clock >>

NextHistory == AddPowerHistory

SpecHistory == InitHistory /\ [][NextHistory]_vars

(***************************************************************************)
(* generateWarnings as a pure function: a store state whose psuInfo loads  *)
(* and thermal flags are drawn from WarningLoads, WarningTransients and    *)
(* WarningThrottles, then one call of generateWarnings on it.              *)
(***************************************************************************)
WarningLoads == { 0, 7999, 8000, 9300, 9499, 9500, 12000, NaN }
WarningTransients == { 5000, 10799, 10800, 11199, 11200, 13000 }
WarningThrottles == { 0, 4000 }

InitWarnings ==
    /\ \E cpu \in DOMAIN CPUS, memory \in DOMAIN MEMORY, psu \in DOMAIN PSUS,
          lp \in WarningLoads, tl \in WarningTransients, tp \in WarningThrottles :
          state = [ initializeSimulation(
                        createSimulatorState(cpu, "gpuA", psu, "air", memory))
                    EXCEPT !.psuInfo[1].loadPercent = lp,
                           !.psuInfo[1].transientLoad = tl,
                           !.thermal[1].throttlePercent = tp,
                           !.thermal[1].isThrottling = tp > 0 ]
    /\ simulationInterval = FALSE
    /\ notifications = 1
    /\ lastOp = Op("initializeSimulation", "", "")
    /\ tickCount = 0
    /\ opCount = 0
    /\ subscribers = << >>
    /\ delivered = NoDelivery
    /\ clock = Clock0

GenerateWarnings ==
    /\ lastOp.name # "generateWarnings"
    /\ state' = [ state EXCEPT !.warnings =
                     generateWarnings(state.power, state.thermal, state.psuInfo,
                                      state.psu, state.cooling, state.cpu, state.memory) ]
    /\ lastOp' = Op("generateWarnings", "", "")
    /\ UNCHANGED << simulationInterval, notifications, tickCount, opCount >>
    /\ UNCHANGED << subscribers, delivered, clock >>

NextWarnings == GenerateWarnings

SpecWarnings == InitWarnings /\ [][NextWarnings]_vars

(***************************************************************************)
(* getPsuEfficiency as a pure function: a PSU of the catalog and a load of *)
(* 0 .. MaxLoadPercent whole percent, then one call of getPsuEfficiency.   *)
(***************************************************************************)
MaxLoadPercent == 150

InitEfficiency ==
    /\ \E psu \in DOMAIN PSUS, lp \in 0..MaxLoadPercent :
          state = [ initializeSimulation(
                        createSimulatorState("cpuA", "gpuA", psu, "air", "ddr4"))
                    EXCEPT !.psuInfo[1].loadPercent = lp * 100 ]
    /\ simulationInterval = FALSE
    /\ notifications = 1
    /\ lastOp = Op("initializeSimulation", "", "")
    /\ tickCount = 0
    /\ opCount = 0
    /\ subscribers = << >>
    /\ delivered = NoDelivery
    /\ clock = Clock0

GetPsuEfficiency ==
    /\ lastOp.name # "getPsuEfficiency"
    /\ state' = [ state EXCEPT !.psuInfo[1].efficiency =
                     getPsuEfficiency(state.psuInfo[1].loadPercent, state.psu) ]
    /\ lastOp' = Op("getPsuEfficiency", "", "")
    /\ UNCHANGED << simulationInterval, notifications, tickCount, opCount >>
    /\ UNCHANGED << subscribers, delivered, clock >>

NextEfficiency == GetPsuEfficiency

SpecEfficiency == InitEfficiency /\ [][NextEfficiency]_vars

(***************************************************************************)
(* Missing hardware: a catalog that lacks any subset of the five hardware  *)
(* lists leaves those selections null; the simulation is initialized and   *)
(* started, then ticks and workload changes (immediate updates) follow.    *)
(***************************************************************************)
InitMissing ==
    /\ \E cpu \in {Null, "cpuA"}, gpu \in {Null, "gpuA"}, psu \in {Null, "psu850"},
          cooling \in {Null, "air"}, memory \in {Null, "ddr4"} :
          state = [ initializeSimulation(
                        createSimulatorState(cpu, gpu, psu, cooling, memory))
                    EXCEPT !.isRunning = TRUE ]
    /\ simulationInterval = TRUE
    /\ notifications = 1
    /\ lastOp = Op("startSimulation", "", "")
    /\ tickCount = 0
    /\ opCount = 0
    /\ subscribers = << >>
    /\ delivered = NoDelivery
    /\ clock = Clock0

\* ticks and immediate updates taken after the start
MaxMissingSteps == 2

NextMissing ==
    \/ /\ tickCount + opCount < MaxMissingSteps
       /\ \E rawDelta \in RawDeltas : SimulationTick(rawDelta, FALSE)
    \/ /\ tickCount + opCount < MaxMissingSteps
       /\ \E workload \in Workloads : UpdateConfig("workload", workload)

SpecMissing == InitMissing /\ [][NextMissing]_vars

(***************************************************************************)
(* calculateCpuPower and calculateGpuPower as pure functions: any catalog  *)
(* CPU and GPU, any workload, boost state, throttle percent and ambient.   *)
(***************************************************************************)
PowerThrottles == { 0, 1, 2500, 5000, 10000 }
PowerBoostStates ==
    { [ currentPower |-> cp, boostTimeRemaining |-> rem, boostActive |-> rem > 0 ] :
        cp \in { 0, 500, 40000 }, rem \in { 0, 28000 } }
PowerAmbients == { 2500, 4000 }

InitPower ==
    /\ \E cpu \in DOMAIN CPUS, gpu \in DOMAIN GPUS, workload \in Workloads,
          boostState \in PowerBoostStates, tp \in PowerThrottles,
          ambientTemp \in PowerAmbients :
          state = [ initializeSimulation(
                        createSimulatorState(cpu, gpu, "psu850", "air", "ddr4"))
                    EXCEPT !.workload = workload,
                           !.boostState = boostState,
                           !.ambientTemp = ambientTemp,
                           !.thermal[1].throttlePercent = tp,
                           !.thermal[1].isThrottling = tp > 0 ]
    /\ simulationInterval = FALSE
    /\ notifications = 1
    /\ lastOp = Op("initializeSimulation", "", "")
    /\ tickCount = 0
    /\ opCount = 0
    /\ subscribers = << >>
    /\ delivered = NoDelivery
    /\ clock = Clock0

CalculatePower ==
    /\ lastOp.name # "calculatePower"
    /\ state' = [ state EXCEPT
                    !.power[1].cpu =
                        calculateCpuPower(state.cpu, state.workload, state.boostState,
                                          state.thermal[1].throttlePercent).current,
                    !.power[1].gpu =
                        calculateGpuPower(state.gpu, state.workload, state.ambientTemp,
                                          state.thermal[1].throttlePercent).sustained ]
    /\ lastOp' = Op("calculatePower", "", "")
    /\ UNCHANGED << simulationInterval, notifications, tickCount, opCount >>
    /\ UNCHANGED << subscribers, delivered, clock >>

NextPower == CalculatePower

SpecPower == InitPower /\ [][NextPower]_vars

(***************************************************************************)
(* The store itself: subscribe, the unsubscribe handles and set, with      *)
(* listeners that render the state and one that unsubscribes when called.  *)
(***************************************************************************)
\* the functions handed to store.subscribe
Listeners == { "render", "once", "log" }

\* a listener that calls its own unsubscribe handle when it is notified
UnsubscribesItself(fn) == fn = "once"

\* subscribers.indexOf(fn), 1-based; 0 when absent
IndexOf(subs, fn) ==
    IF \E i \in 1..Len(subs) : subs[i] = fn
    THEN CHOOSE i \in 1..Len(subs) : subs[i] = fn /\ \A j \in 1..(i - 1) : subs[j] # fn
    ELSE 0

\* subscribers.push(fn)
subscribe(subs, fn) == Append(subs, fn)

\* the handle returned by subscribe(fn): indexOf, then splice(idx, 1)
unsubscribe(subs, fn) ==
    LET idx == IndexOf(subs, fn)
    IN  IF idx >= 1
        THEN SubSeq(subs, 1, idx - 1) \o SubSeq(subs, idx + 1, Len(subs))
        ELSE subs

\* subscribers.forEach(fn => fn(state)): visits the indices below the length
\* the array had at the start, reading the live array and skipping indices it
\* no longer has
RECURSIVE ForEach(_, _, _, _, _)
ForEach(subs, i, len, st, calls) ==
    IF i > len THEN [ subscribers |-> subs, calls |-> calls ]
    ELSE IF i > Len(subs) THEN ForEach(subs, i + 1, len, st, calls)
    ELSE ForEach(IF UnsubscribesItself(subs[i]) THEN unsubscribe(subs, subs[i]) ELSE subs,
                 i + 1, len, st, Append(calls, [ fn |-> subs[i], state |-> st ]))

\* store operations taken in the store specification
MaxStoreOps == 4

StoreUpdates == { << "isPaused", TRUE >>, << "isPaused", FALSE >>, << "fanCount", 6 >> }

Subscribe(fn) ==
    /\ opCount < MaxStoreOps
    /\ \A i \in 1..Len(subscribers) : subscribers[i] # fn
    /\ subscribers' = subscribe(subscribers, fn)
    /\ lastOp' = Op("subscribe", fn, "")
    /\ notifications' = 0
    /\ opCount' = opCount + 1
    /\ UNCHANGED << state, simulationInterval, tickCount, delivered, clock >>

\* a handle is called; one called again after it removed its function finds
\* nothing to remove
Unsubscribe(fn) ==
    /\ opCount < MaxStoreOps
    /\ subscribers' = unsubscribe(subscribers, fn)
    /\ lastOp' = Op("unsubscribe", fn, "")
    /\ notifications' = 0
    /\ opCount' = opCount + 1
    /\ UNCHANGED << state, simulationInterval, tickCount, delivered, clock >>

\* store.set({ [key]: value })
Set(key, value) ==
    /\ opCount < MaxStoreOps
    /\ state' = [ state EXCEPT ![key] = value ]
    /\ subscribers' = ForEach(subscribers, 1, Len(subscribers),
                              [ state EXCEPT ![key] = value ], << >>).subscribers
    /\ delivered' = [ before |-> subscribers,
                      calls |-> ForEach(subscribers, 1, Len(subscribers),
                                        [ state EXCEPT ![key] = value ], << >>).calls ]
    /\ lastOp' = Op("set", key, "")
    /\ notifications' = 1
    /\ opCount' = opCount + 1
    /\ UNCHANGED << simulationInterval, tickCount, clock >>

NextStore ==
    \/ \E fn \in Listeners : Subscribe(fn)
    \/ \E fn \in Listeners : Unsubscribe(fn)
    \/ \E u \in StoreUpdates : Set(u[1], u[2])

SpecStore == Init /\ [][NextStore]_vars

(***************************************************************************)
(* The speed control: setSimulationSpeed with any value of the number      *)
(* type, and the ticks that integrate with the speed it leaves.            *)
(***************************************************************************)
\* per-mille speeds: negative, zero, below, at and above the limits, and NaN
SpeedInputs == { -1000, 0, 100, 250, 1000, 10000, 10001, 50000, NaN }

\* the model follows the ticks only while the speed is a number
NextSpeed ==
    \/ InitializeSimulation
    \/ StartSimulation
    \/ \E speed \in SpeedInputs : SetSimulationSpeed(speed)
    \/ /\ state.simulationSpeed # NaN
       /\ \E rawDelta \in RawDeltas : SimulationTick(rawDelta, FALSE)

SpecSpeed == Init /\ [][NextSpeed]_vars

(***************************************************************************)
(* The boost window over enough ticks to run out and start again: the      *)
(* simulation is started, sped up and put under a workload, then ticks.    *)
(***************************************************************************)
MaxBoostTicks == 4

\* high-load workloads of both CPU load types (stress, rendering); the store
\* starts under the gaming workload
BoostWorkloads == { "stress", "streaming" }

NextBoost ==
    \/ InitializeSimulation
    \/ StartSimulation
    \/ \E speed \in Speeds : SetSimulationSpeed(speed)
    \/ \E workload \in BoostWorkloads : UpdateConfig("workload", workload)
    \/ \E rawDelta \in RawDeltas : TickWithin(MaxBoostTicks, rawDelta, FALSE)

SpecBoost == Init /\ [][NextBoost]_vars

(***************************************************************************)
(* The throttle threshold in the loop: a running simulation that has       *)
(* warmed up to a temperature around the thresholds, for a CPU with and a  *)
(* CPU without throttleTemp, not yet throttling (at or below the threshold *)
(* the loop passes for that CPU), then ticks and CPU swaps.                *)
(***************************************************************************)
ThresholdTemps ==
    { 8000, 8400, 8500, 8501, 8600, 8900, 9000, 9001, 9200, 9500, 9501, 9700 }

InitThreshold ==
    /\ \E cpu \in {"cpuA", "cpuB"} :
       \E cpuTemp \in { t \in ThresholdTemps : t <= throttleTempOf(cpu) } :
          state = [ initializeSimulation(
                        createSimulatorState(cpu, "gpuA", "psu850", "air", "ddr4"))
                    EXCEPT !.thermal[1].cpuTemp = cpuTemp,
                           !.isRunning = TRUE ]
    /\ simulationInterval = TRUE
    /\ notifications = 1
    /\ lastOp = Op("startSimulation", "", "")
    /\ tickCount = 0
    /\ opCount = 0
    /\ subscribers = << >>
    /\ delivered = NoDelivery
    /\ clock = Clock0

NextThreshold ==
    \/ \E rawDelta \in RawDeltas : SimulationTick(rawDelta, FALSE)
    \/ \E cpu \in {"cpuA", "cpuB"} : SelectHardware("cpu", cpu)

SpecThreshold == InitThreshold /\ [][NextThreshold]_vars

(***************************************************************************)
(* Scrubbing the history: ticks that sample the history, the slider with   *)
(* valid, negative, too large and NaN positions, pause and reset.          *)
(***************************************************************************)
HistoryIndexes == { -1, 0, 1, 5, NaN }

NextScrub ==
    \/ InitializeSimulation
    \/ StartSimulation
    \/ TogglePause
    \/ ResetSimulation
    \/ \E rawDelta \in RawDeltas : SimulationTick(rawDelta, TRUE)
    \/ \E index \in HistoryIndexes : SetHistoryIndex(index)

SpecScrub == Init /\ [][NextScrub]_vars

(***************************************************************************)
(* Pausing and resuming against the wall clock: time passes in steps, the  *)
(* timer's tick reads Date.now() and measures rawDelta from lastTickTime,  *)
(* and history samples fall due HISTORY_RATE after lastHistoryTime.        *)
(***************************************************************************)
MaxClock == 3500
Elapses == { 500, 1500 }

\* wall-clock time passes; the timer fires at some of these moments
Advance(ms) ==
    /\ simulationInterval
    /\ clock.now + ms <= MaxClock
    /\ clock' = [ clock EXCEPT
                    !.now = clock.now + ms,
                    !.runTime = IF state.isRunning /\ ~state.isPaused
                                THEN clock.runTime + ms ELSE clock.runTime ]
    /\ lastOp' = Op("elapse", "", "")
    /\ notifications' = 0
    /\ UNCHANGED << state, simulationInterval, tickCount, opCount,
                    subscribers, delivered >>

\* const now = Date.now(); const rawDelta = (now - lastTickTime) / 1000;
\* lastTickTime = now; ... if (now - lastHistoryTime >= HISTORY_RATE)
\* { addPowerHistory(...); lastHistoryTime = now; }
ClockTick ==
    /\ TickStep(MaxTicks, clock.now - clock.lastTickTime,
                clock.now - clock.lastHistoryTime >= HISTORY_RATE)
    /\ clock' = IF TickSkipped(state)
                THEN clock
                ELSE [ clock EXCEPT
                         !.lastTickTime = clock.now,
                         !.lastHistoryTime =
                             IF clock.now - clock.lastHistoryTime >= HISTORY_RATE
                             THEN clock.now ELSE @ ]

NextPause ==
    \/ InitializeSimulation
    \/ StartSimulation
    \/ TogglePause
    \/ ClockTick
    \/ \E ms \in Elapses : Advance(ms)
    \/ \E index \in {0, 5} : SetHistoryIndex(index)

SpecPause == Init /\ [][NextPause]_vars

(***************************************************************************)
(* What subscribers see of a configuration change: every store.set of      *)
(* selectHardware and updateConfig calls the subscribers with the state it *)
(* has just merged, before the next statement of the operation runs.       *)
(***************************************************************************)
\* the states passed to store.set by selectHardware, in order: the updates,
\* then immediateUpdate's recomputation
selectHardwareSets(st, type, id) ==
    LET st1 == [ st EXCEPT ![type] = id ]
        st2 == IF type = "cpu"
               THEN LET found == FindCompatibleMemory(id)
                    IN  [ st1 EXCEPT
                            !.boostState = EmptyBoost,
                            !.memory = IF ~checkMemoryCompatibility(id, st.memory)
                                          /\ found # Null
                                       THEN found ELSE st.memory ]
               ELSE st1
    IN  << st2, immediateUpdate(st2) >>

\* the states passed to store.set by updateConfig({ [key]: value }), in
\* order: the config, the boost window of a workload change, the thermal
\* state of an ambient change, then immediateUpdate's recomputation
updateConfigSets(st, key, value) ==
    LET st1 == [ st EXCEPT ![key] = value ]
        boosting == value \in HighLoad /\ st1.cpu # Null
                    /\ CPUS[st1.cpu].shortBoostDuration > 0
        st2 == IF key = "workload"
               THEN [ st1 EXCEPT !.boostState =
                        [ currentPower |-> PowerCpuOf(st1),
                          boostTimeRemaining |-> IF boosting
                                                 THEN CPUS[st1.cpu].shortBoostDuration
                                                 ELSE 0,
                          boostActive |-> boosting ] ]
               ELSE st1
        st3 == IF key = "ambientTemp"
               THEN [ st2 EXCEPT !.thermal =
                        Some(setAmbientTemp(IF st1.thermal # None THEN st1.thermal[1]
                                            ELSE createThermalState(value), value)) ]
               ELSE st2
    IN  << st1 >>
        \o (IF key = "workload" THEN << st2 >> ELSE << >>)
        \o (IF key = "ambientTemp" THEN << st3 >> ELSE << >>)
        \o << immediateUpdate(st3) >>

\* store.set called once per state of sets, each call running forEach
RECURSIVE SetAll(_, _, _)
SetAll(subs, sets, calls) ==
    IF sets = << >> THEN [ subscribers |-> subs, calls |-> calls ]
    ELSE SetAll(ForEach(subs, 1, Len(subs), Head(sets), calls).subscribers,
                Tail(sets),
                ForEach(subs, 1, Len(subs), Head(sets), calls).calls)

\* an operation whose store.set calls pass sets, with the subscribers called
Notified(name, type, id, sets) ==
    /\ state.thermal # None
    /\ opCount < MaxOps
    /\ state' = sets[Len(sets)]
    /\ subscribers' = SetAll(subscribers, sets, << >>).subscribers
    /\ delivered' = [ before |-> subscribers,
                      calls |-> SetAll(subscribers, sets, << >>).calls ]
    /\ notifications' = Len(sets)
    /\ lastOp' = Op(name, type, id)
    /\ opCount' = opCount + 1
    /\ UNCHANGED << simulationInterval, tickCount, clock >>

NotifiedSelectHardware(type, id) ==
    /\ id \in CatalogIds(type)
    /\ Notified("selectHardware", type, id, selectHardwareSets(state, type, id))

NotifiedUpdateConfig(key, value) ==
    Notified("updateConfig", key, "", updateConfigSets(state, key, value))

NotifiedSelects ==
    { << "cpu", "cpuA" >>, << "cpu", "cpuB" >>, << "psu", "psu650" >>,
      << "memory", "ddr5" >> }

\* store.subscribe((state) => ui.update(state)) of the application
InitNotified ==
    /\ \E d \in DefaultHardware :
          state = createSimulatorState(d[1], "gpuA", d[3], d[2], "ddr4")
    /\ simulationInterval = FALSE
    /\ notifications = 0
    /\ lastOp = Op("createSimulatorState", "", "")
    /\ tickCount = 0
    /\ opCount = 0
    /\ subscribers = << "render" >>
    /\ delivered = NoDelivery
    /\ clock = Clock0

NextNotified ==
    \/ InitializeSimulation
    \/ StartSimulation
    \/ \E rawDelta \in RawDeltas : SimulationTick(rawDelta, FALSE)
    \/ \E in \in NotifiedSelects : NotifiedSelectHardware(in[1], in[2])
    \/ \E in \in ConfigInputs : NotifiedUpdateConfig(in[1], in[2])

SpecNotified == InitNotified /\ [][NextNotified]_vars

(***************************************************************************)
(* Properties                                                              *)
(***************************************************************************)
Thermal == state.thermal[1]

\* C1: the thermal state returned by updateThermalState, for any prior
\* thermal state, any heat/cooling inputs and any deltaTime >= 0, has
\* cpuTemp >= state.ambientTemp.
C1_UpdateKeepsCpuTempAboveAmbient ==
    [][ lastOp'.name = "updateThermalState"
        => NGe(state'.thermal[1].cpuTemp, state.thermal[1].ambientTemp) ]_vars

\* C2: in every state committed to the store once thermal is non-null,
\* thermal.cpuTemp >= thermal.ambientTemp.
C2_StoreCpuTempAboveAmbient ==
    state.thermal # None => NGe(Thermal.cpuTemp, Thermal.ambientTemp)

\* C3: in every thermal state committed to the store, isThrottling is true
\* exactly when throttlePercent > 0, and 0 <= throttlePercent <= 95.
C3_ThrottleFlagMatchesPercent ==
    state.thermal # None =>
        /\ Thermal.isThrottling <=> Thermal.throttlePercent > 0
        /\ Thermal.throttlePercent >= 0
        /\ Thermal.throttlePercent <= 9500

\* a throttling thermal state has been committed by a tick and carried over
\* by an immediate update
C3_Witness ==
    /\ state.thermal # None
    /\ Thermal.throttlePercent > 0
    /\ Thermal.isThrottling
    /\ lastOp.name \in {"updateConfig", "selectHardware", "resetSimulation"}

\* C4: with the CPU temperature held 5 degrees below the effective throttle
\* threshold, every tick strictly decreases a positive throttlePercent, it is
\* exactly 0 after at most 63 ticks, and once 0 it stays 0.
C4_ThrottleDecaysToZero ==
    [][ (lastOp'.name = "updateThermalState"
         /\ state.thermal[1].cpuTemp = HoldThrottleTemp - 500)
        => /\ state'.thermal[1].cpuTemp = HoldThrottleTemp - 500
           /\ state.thermal[1].throttlePercent > 0
                => state'.thermal[1].throttlePercent < state.thermal[1].throttlePercent
           /\ state.thermal[1].throttlePercent = 0
                => state'.thermal[1].throttlePercent = 0
           /\ tickCount' >= 63 => state'.thermal[1].throttlePercent = 0 ]_vars

\* starting from 95 %, the throttle has decayed to exactly 0 in 63 held ticks
C4_Witness ==
    /\ Thermal.cpuTemp = HoldThrottleTemp - 500
    /\ tickCount = 63
    /\ Thermal.throttlePercent = 0
    /\ ~Thermal.isThrottling

C6_ResetPostcondition ==
    lastOp.name = "resetSimulation" =>
        /\ state.simulatedTime = 0
        /\ state.powerHistory = << >>
        /\ state.tempHistory = << >>
        /\ state.historyIndex = -1
        /\ state.thermal # None
        /\ Thermal.cpuTemp = state.ambientTemp
        /\ Thermal.ambientTemp = state.ambientTemp
        /\ Thermal.throttlePercent = 0
        /\ ~Thermal.isThrottling
        /\ state.power # None
        /\ state.psuInfo # None

\* a reset taken after ticks have advanced the clock and warmed the CPU
C6_Witness ==
    /\ lastOp.name = "resetSimulation"
    /\ tickCount >= 2
    /\ state.simulatedTime = 0
    /\ Thermal.cpuTemp = state.ambientTemp
    /\ state.power # None

\* C7: a timer tick that fires while isPaused is true or isRunning is false
\* changes no field of the store state, notifies no subscriber and appends
\* no history sample.
C7_SkippedTickChangesNothing ==
    [][ (lastOp'.name = "simulationTick" /\ (state.isPaused \/ ~state.isRunning))
        => /\ state' = state
           /\ notifications' = 0 ]_vars

\* a tick has fired on a started, paused store that had already ticked
C7_Witness ==
    /\ lastOp.name = "simulationTick"
    /\ state.isPaused
    /\ state.isRunning
    /\ simulationInterval
    /\ tickCount >= 1
    /\ notifications = 0

\* C8: a configuration change (selectHardware with a valid id, or
\* updateConfig) recomputes power, psuInfo and warnings before it returns and
\* leaves thermal.cpuTemp, caseTemp, fanSpeed, throttlePercent, simulatedTime,
\* powerHistory and tempHistory unchanged.
C8_ConfigChangeFrame ==
    [][ (lastOp'.name \in {"selectHardware", "updateConfig"} /\ notifications' > 0)
        => /\ state'.thermal[1].cpuTemp = state.thermal[1].cpuTemp
           /\ state'.thermal[1].caseTemp = state.thermal[1].caseTemp
           /\ state'.thermal[1].fanSpeed = state.thermal[1].fanSpeed
           /\ state'.thermal[1].throttlePercent = state.thermal[1].throttlePercent
           /\ state'.simulatedTime = state.simulatedTime
           /\ state'.powerHistory = state.powerHistory
           /\ state'.tempHistory = state.tempHistory
           /\ state'.power # None
           /\ state'.power[1].memory
                = calculateMemoryPower(state'.memory, state'.workload).power
           /\ state'.power[1].motherboard
                = calculateFixedPower(state'.fanCount, 3000, state'.workload).motherboard
           /\ state'.psuInfo
                = Some(calculateWallPower(state'.power[1].sustainedTotal,
                                          state'.power[1].transientPeak, state'.psu))
           /\ (\E i \in 1..Len(state'.warnings) :
                    state'.warnings[i].type = "memory_incompatible")
                <=> ~checkMemoryCompatibility(state'.cpu, state'.memory) ]_vars

\* a workload change on a store whose CPU has been warmed by ticks
C8_Witness ==
    /\ lastOp.name = "updateConfig"
    /\ lastOp.type = "workload"
    /\ state.workload = "stress"
    /\ tickCount >= 1
    /\ Thermal.cpuTemp > Thermal.ambientTemp
    /\ state.power[1].motherboard = MotherboardLoad

\* C9: after any sequence of addPowerHistory calls, powerHistory and
\* tempHistory hold at most 300 entries and have equal length; once 300 are
\* held each append evicts exactly the oldest, so the buffers hold the 300
\* most recent samples in insertion order.
C9_HistoryBoundedFifo ==
    LET n == Len(state.powerHistory)
    IN  /\ n <= 300
        /\ Len(state.tempHistory) = n
        /\ n = IF tickCount <= 300 THEN tickCount ELSE 300
        /\ \A i \in 1..n :
              /\ state.powerHistory[i].value = SamplePower(tickCount - n + i)
              /\ state.tempHistory[i].value = SampleTemp(tickCount - n + i)

\* more than 300 samples were appended and the oldest ones are gone
C9_Witness ==
    /\ lastOp.name = "addPowerHistory"
    /\ tickCount > 300
    /\ Len(state.powerHistory) = 300
    /\ state.powerHistory[1].value = SamplePower(tickCount - 299)
    /\ state.powerHistory[300].value = SamplePower(tickCount)

\* C10 as stated: when selectHardware(store, 'cpu', id) with a valid id, or
\* resetSimulation(store), returns, the committed boost window is empty
\* (boostTimeRemaining = 0 and boostActive = false), whatever the workload.
C10_BoostEmptyAfterCpuChangeOrReset ==
    (\/ lastOp.name = "resetSimulation"
     \/ (lastOp.name = "selectHardware" /\ lastOp.type = "cpu" /\ notifications > 0))
    => /\ state.boostState.boostTimeRemaining = 0
       /\ ~state.boostState.boostActive

\* C10 amended: when selectHardware(store, 'cpu', id) with a valid id, or
\* resetSimulation(store), returns, the committed boost window is a fresh
\* one: empty if the workload is not high-load or the CPU has no boost
\* duration, otherwise full (boostTimeRemaining = shortBoostDuration and
\* boostActive = true).
C10_BoostFreshAfterCpuChangeOrReset ==
    (\/ lastOp.name = "resetSimulation"
     \/ (lastOp.name = "selectHardware" /\ lastOp.type = "cpu" /\ notifications > 0))
    => LET restarts ==
               /\ state.workload \in {"rendering", "stress", "compiling", "streaming"}
               /\ CPUS[state.cpu].shortBoostDuration > 0
       IN  /\ state.boostState.boostTimeRemaining
                = IF restarts THEN CPUS[state.cpu].shortBoostDuration ELSE 0
           /\ state.boostState.boostActive = restarts

\* a CPU was selected under a high-load workload and the window restarted
C10_Witness ==
    /\ lastOp.name = "selectHardware"
    /\ lastOp.type = "cpu"
    /\ notifications > 0
    /\ state.workload = "stress"
    /\ state.boostState.boostActive
    /\ state.boostState.boostTimeRemaining = CPUS[state.cpu].shortBoostDuration


C12_TransientWarningMatchesStability ==
    (state.psu # Null /\ state.psuInfo # None) =>
        ((\E i \in 1..Len(state.warnings) :
             state.warnings[i] = [ type |-> "psu_transient", severity |-> "danger" ])
         <=> ~state.psuInfo[1].transientStable)


\* C13: for non-null power, thermal and psuInfo and a selected CPU and memory,
\* generateWarnings emits exactly one danger-severity memory_incompatible
\* warning when memory.type is not in the CPU's supported-memory list
\* (default DDR4) and none otherwise; every other warning is the same as with
\* a compatible memory.
C13_MemoryWarningExactlyWhenIncompatible ==
    lastOp.name = "generateWarnings" =>
        LET IsMem(x) == x.type = "memory_incompatible"
            NotMem(x) == x.type # "memory_incompatible"
            supported == IF CPUS[state.cpu].supportedMemory # None
                         THEN CPUS[state.cpu].supportedMemory[1] ELSE {"DDR4"}
            mem == SelectSeq(state.warnings, IsMem)
        IN  /\ Len(mem) = IF MEMORY[state.memory].type \in supported THEN 0 ELSE 1
            /\ \A i \in 1..Len(mem) : mem[i].severity = "danger"
            /\ \A m \in DOMAIN MEMORY :
                  MEMORY[m].type \in supported =>
                      SelectSeq(state.warnings, NotMem)
                        = generateWarnings(state.power, state.thermal, state.psuInfo,
                                           state.psu, state.cooling, state.cpu, m)

\* warnings were generated for a DDR4-only CPU with DDR5 memory, next to
\* other warnings
C13_Witness ==
    /\ lastOp.name = "generateWarnings"
    /\ CPUS[state.cpu].supportedMemory = None
    /\ MEMORY[state.memory].type = "DDR5"
    /\ Len(state.warnings) >= 3
    /\ state.warnings[1] = [ type |-> "memory_incompatible", severity |-> "danger" ]

\* C14: generateWarnings emits psu_load_critical (danger) exactly when
\* sustained loadPercent >= 95, psu_load_high (warning) exactly when
\* 80 <= loadPercent < 95, and never both; a sustained load of 93 % with a
\* transient load above the limit 112 (transientResponse 0.85) yields
\* psu_load_high with a danger psu_transient and no psu_load_critical.
C14_PsuLoadWarningThresholds ==
    lastOp.name = "generateWarnings" =>
        LET lp == state.psuInfo[1].loadPercent
            tl == state.psuInfo[1].transientLoad
            Has(t) == \E i \in 1..Len(state.warnings) : state.warnings[i].type = t
            HasSev(t, sev) == \E i \in 1..Len(state.warnings) :
                                 state.warnings[i] = [ type |-> t, severity |-> sev ]
        IN  /\ Has("psu_load_critical") <=> (lp # NaN /\ lp >= 9500)
            /\ Has("psu_load_high") <=> (lp # NaN /\ lp >= 8000 /\ lp < 9500)
            /\ Has("psu_load_critical") => HasSev("psu_load_critical", "danger")
            /\ Has("psu_load_high") => HasSev("psu_load_high", "warning")
            /\ ~(Has("psu_load_critical") /\ Has("psu_load_high"))
            /\ (lp = 9300 /\ tl >= 11200 /\ PSUS[state.psu].transientResponse = 850)
                 => /\ HasSev("psu_load_high", "warning")
                    /\ HasSev("psu_transient", "danger")
                    /\ ~Has("psu_load_critical")

\* warnings were generated for a 93 % sustained load with a transient load at
\* the limit of a PSU with transientResponse 0.85
C14_Witness ==
    /\ lastOp.name = "generateWarnings"
    /\ state.psuInfo[1].loadPercent = 9300
    /\ state.psuInfo[1].transientLoad = 11200
    /\ PSUS[state.psu].transientResponse = 850
    /\ \E i \in 1..Len(state.warnings) :
          state.warnings[i] = [ type |-> "psu_load_high", severity |-> "warning" ]
    /\ \E i \in 1..Len(state.warnings) :
          state.warnings[i] = [ type |-> "psu_transient", severity |-> "danger" ]


\* C15: for a PSU with a non-empty efficiency curve, getPsuEfficiency returns
\* exactly the curve value at every defined load point, a value between the
\* two neighbouring curve values (strictly between when they differ) for a
\* load strictly between two defined points, the lowest point's value at or
\* below it and the highest point's value at or above it; for the curve
\* {0: 0.80, 50: 0.92, 100: 0.87} this gives 0.92 at 50, a value strictly
\* between 0.80 and 0.92 at 25, and 0.87 at 150.
C15_EfficiencyInterpolation ==
    lastOp.name = "getPsuEfficiency" =>
        LET curve == PSUS[state.psu].efficiency
            pts == DOMAIN curve
            lp == state.psuInfo[1].loadPercent
            e == state.psuInfo[1].efficiency
            lo == CHOOSE p \in pts : \A q \in pts : p <= q
            hi == CHOOSE p \in pts : \A q \in pts : p >= q
        IN  /\ \A p \in pts : lp = p * 100 => e = curve[p]
            /\ lp <= lo * 100 => e = curve[lo]
            /\ lp >= hi * 100 => e = curve[hi]
            /\ \A p, q \in pts :
                  (/\ p < q
                   /\ \A r \in pts : ~(p < r /\ r < q)
                   /\ p * 100 < lp
                   /\ lp < q * 100)
                  => /\ curve[p] < curve[q] => (curve[p] < e /\ e < curve[q])
                     /\ curve[p] > curve[q] => (curve[q] < e /\ e < curve[p])
                     /\ curve[p] = curve[q] => e = curve[p]
            /\ curve = (0 :> 800 @@ 50 :> 920 @@ 100 :> 870)
                 => /\ lp = 5000 => e = 920
                    /\ lp = 2500 => (800 < e /\ e < 920)
                    /\ lp = 15000 => e = 870

\* the efficiency at 25 % load was interpolated on the curve
\* {0: 0.80, 50: 0.92, 100: 0.87}
C15_Witness ==
    /\ lastOp.name = "getPsuEfficiency"
    /\ PSUS[state.psu].efficiency = (0 :> 800 @@ 50 :> 920 @@ 100 :> 870)
    /\ state.psuInfo[1].loadPercent = 2500
    /\ state.psuInfo[1].efficiency = 860


\* C16: with any subset of cpu, gpu, memory, psu and cooling null and any
\* workload of the profile table, a tick and an immediate update commit
\* non-null power, psuInfo and thermal; a null CPU or GPU contributes 0 W, and
\* a null PSU gives loadPercent 0, transientLoad 0, transientStable true and
\* no PSU warning.
C16_MissingHardwareIsNeutral ==
    ((lastOp.name = "simulationTick" /\ notifications > 0) \/ lastOp.name = "updateConfig")
    => /\ state.power # None
       /\ state.psuInfo # None
       /\ state.thermal # None
       /\ state.cpu = Null => state.power[1].cpu = 0
       /\ state.gpu = Null => state.power[1].gpu = 0
       /\ state.psu = Null =>
             /\ state.psuInfo[1].loadPercent = 0
             /\ state.psuInfo[1].transientLoad = 0
             /\ state.psuInfo[1].transientStable
             /\ \A i \in 1..Len(state.warnings) :
                   state.warnings[i].type \notin
                       {"psu_load_critical", "psu_load_high", "psu_transient"}

\* a live tick under a stress workload with every selection null
C16_Witness ==
    /\ lastOp.name = "simulationTick"
    /\ notifications > 0
    /\ state.workload = "stress"
    /\ state.cpu = Null /\ state.gpu = Null /\ state.psu = Null
    /\ state.cooling = Null /\ state.memory = Null
    /\ state.power # None
    /\ state.power[1].sustainedTotal > 0


\* C17: for every CPU and GPU spec, every workload, every boost state and
\* every throttlePercent in [0, 100], calculateCpuPower returns
\* current >= cpu.idlePower and calculateGpuPower returns
\* sustained >= gpu.idleDraw.
C17_PowerNeverBelowIdle ==
    lastOp.name = "calculatePower" =>
        /\ NGe(state.power[1].cpu, CPUS[state.cpu].idlePower)
        /\ NGe(state.power[1].gpu, GPUS[state.gpu].idleDraw)


\* C18: every store.set merges the updates into a new state and, before it
\* returns, calls each function subscribed at that moment exactly once with
\* the new state; a function whose unsubscribe handle has been called is not
\* called by any later set.
C18_SetNotifiesEverySubscriberOnce ==
    lastOp.name = "set" =>
        /\ \A i \in 1..Len(delivered.before) :
              Cardinality({ j \in 1..Len(delivered.calls) :
                              delivered.calls[j].fn = delivered.before[i] }) = 1
        /\ \A j \in 1..Len(delivered.calls) :
              /\ delivered.calls[j].state = state
              /\ \E i \in 1..Len(delivered.before) :
                    delivered.before[i] = delivered.calls[j].fn


\* C19: after setSimulationSpeed with any number, simulationSpeed lies in
\* [0.25, 10]; the deltaTime a tick integrates equals
\* min(wall-clock seconds since the previous tick, 2) * simulationSpeed, so
\* one tick never advances simulatedTime by more than 20 simulated seconds.
C19_SpeedClampedAndTickBounded ==
    [][ /\ lastOp'.name = "setSimulationSpeed"
           => /\ NGe(state'.simulationSpeed, 250)
              /\ NLe(state'.simulationSpeed, 10000)
        /\ (lastOp'.name = "simulationTick" /\ notifications' > 0)
           => /\ \E rawDelta \in RawDeltas :
                    state'.simulatedTime - state.simulatedTime
                        = (Min(rawDelta, 2000) * state.simulationSpeed) \div 1000
              /\ state'.simulatedTime - state.simulatedTime <= 20000 ]_vars


C21_TransientPeakReplacesGpuTerm ==
    ((lastOp.name = "simulationTick" /\ notifications > 0)
       \/ lastOp.name \in {"updateConfig", "resetSimulation"}
       \/ (lastOp.name = "selectHardware" /\ notifications > 0))
    => LET p == state.power[1]
       IN  /\ p.fans # NaN
           /\ p.sustainedTotal = p.cpu + p.gpu + p.memory + p.storage + p.motherboard
                                   + p.peripherals + p.rgb + p.fans
           /\ p.transientPeak = p.sustainedTotal - p.gpu + p.gpuTransient
           /\ WORKLOAD_PROFILES[state.workload].gpuLoadType = "idle"
                => p.transientPeak = p.sustainedTotal


\* C22: in a tick that starts with thermal.throttlePercent = p > 0 the
\* throttle factor is applied exactly once: the committed power.cpu equals
\* the current value calculateCpuPower returns for that p, and the committed
\* power.gpu equals the sustained value calculateGpuPower returns.
C22_ThrottleAppliedOnce ==
    [][ (/\ lastOp'.name = "simulationTick"
         /\ notifications' > 0
         /\ state.thermal[1].throttlePercent > 0)
        => /\ state'.power[1].cpu
                = calculateCpuPower(state.cpu, state.workload,
                      [ state'.boostState EXCEPT !.currentPower = PowerCpuOf(state) ],
                      state.thermal[1].throttlePercent).current
           /\ state'.power[1].gpu
                = calculateGpuPower(state.gpu, state.workload, state.ambientTemp,
                                    state.thermal[1].throttlePercent).sustained ]_vars


\* C23: in the simulation loop the effective throttle threshold of a CPU whose
\* record has no throttleTemp is maxSafeTemp - 5, and that of a CPU with a
\* throttleTemp is that value: from no throttling, throttlePercent rises in
\* exactly the ticks whose new cpuTemp exceeds the threshold.
C23_LoopThrottleThreshold ==
    [][ (/\ lastOp'.name = "simulationTick"
         /\ notifications' > 0
         /\ state.cpu # Null
         /\ state.thermal[1].throttlePercent = 0)
        => LET threshold == IF CPUS[state.cpu].throttleTemp # 0
                            THEN CPUS[state.cpu].throttleTemp
                            ELSE CPUS[state.cpu].maxSafeTemp - 500
           IN  state'.thermal[1].throttlePercent > 0
                 <=> state'.thermal[1].cpuTemp > threshold ]_vars


\* C24: for every tick with a deltaTime the loop can produce
\* (0 < deltaTime <= 2 * simulationSpeed) and every cooler, the new cpuTemp
\* lies between the previous cpuTemp and the equilibriumTemp computed in that
\* tick: the temperature never crosses the equilibrium it approaches.
C24_NoOvershootOfEquilibrium ==
    [][ (/\ lastOp'.name = "simulationTick"
         /\ notifications' > 0
         /\ state'.simulatedTime > state.simulatedTime)
        => LET prev == state.thermal[1].cpuTemp
               new == state'.thermal[1].cpuTemp
               eq == state'.thermal[1].equilibriumTemp
           IN  /\ prev # NaN /\ new # NaN /\ eq # NaN
               /\ (IF prev <= eq THEN prev ELSE eq) <= new
               /\ new <= (IF prev <= eq THEN eq ELSE prev) ]_vars


\* C25: setHistoryIndex(store, i) with 0 <= i < powerHistory.length sets
\* historyIndex = i and isPaused = true; with any other i (negative, too
\* large, NaN) it sets historyIndex = -1 and leaves isPaused unchanged; after
\* any sequence of operations historyIndex is -1 or a valid index into
\* powerHistory.
C25_HistoryIndexValid ==
    [][ /\ lastOp'.name = "setHistoryIndex"
           => \E i \in HistoryIndexes :
                /\ lastOp'.id = ToString(i)
                /\ IF i # NaN /\ 0 <= i /\ i < Len(state.powerHistory)
                   THEN state'.historyIndex = i /\ state'.isPaused
                   ELSE state'.historyIndex = -1 /\ state'.isPaused = state.isPaused
        /\ \/ state'.historyIndex = -1
           \/ state'.historyIndex \in 0..(Len(state'.powerHistory) - 1) ]_vars

\* the slider was moved to the second of two samples
C25_Witness ==
    /\ lastOp.name = "setHistoryIndex"
    /\ Len(state.powerHistory) = 2
    /\ state.historyIndex = 1
    /\ state.isPaused


\* C26: while the workload stays high-load and the CPU is not changed nor the
\* simulation reset, a boost window runs at most once: after a tick has left
\* boostActive false with boostTimeRemaining 0, the next tick leaves them so.
C26_BoostWindowRunsOnce ==
    [][ (/\ lastOp.name = "simulationTick"
         /\ lastOp'.name = "simulationTick"
         /\ notifications' > 0
         /\ state.workload \in {"rendering", "stress", "compiling", "streaming"}
         /\ state.cpu # Null
         /\ CPUS[state.cpu].shortBoostDuration > 0
         /\ ~state.boostState.boostActive
         /\ state.boostState.boostTimeRemaining = 0)
        => /\ ~state'.boostState.boostActive
           /\ state'.boostState.boostTimeRemaining = 0 ]_vars


\* C27: after any sequence of ticks from a freshly created thermal state,
\* with every deltaTime the loop can produce, thermal.fanSpeed stays within
\* [20, 100] percent.
C27_FanSpeedWithinRange ==
    state.thermal # None
    => /\ NGe(state.thermal[1].fanSpeed, 2000)
       /\ NLe(state.thermal[1].fanSpeed, 10000)


\* C28: in every state committed to the store after a tick or an immediate
\* update (config change, CPU swap, reset), the warning list contains a
\* thermal_throttle warning if and only if the committed thermal.isThrottling
\* is true.
C28_ThrottleWarningMatchesCommittedFlag ==
    ((lastOp.name = "simulationTick" /\ notifications > 0)
       \/ lastOp.name \in {"updateConfig", "resetSimulation"}
       \/ (lastOp.name = "selectHardware" /\ notifications > 0))
    => ((\E i \in 1..Len(state.warnings) : state.warnings[i].type = "thermal_throttle")
          <=> state.thermal[1].isThrottling)


\* C29: time spent paused is never integrated.  While the simulation is
\* paused (by togglePause or by setHistoryIndex), no tick, passage of time or
\* resume changes simulatedTime, cpuTemp or boostTimeRemaining; the resume
\* sets lastTickTime to the moment of resume; and simulatedTime never exceeds
\* the wall-clock time spent running, scaled by the simulation speed.
C29_PausedTimeNotIntegrated ==
    /\ [](state.thermal # None
            => state.simulatedTime
                 <= (clock.runTime * state.simulationSpeed) \div 1000)
    /\ [][(state.thermal # None /\ state.isPaused)
            => /\ state'.simulatedTime = state.simulatedTime
               /\ state'.thermal[1].cpuTemp = state.thermal[1].cpuTemp
               /\ state'.boostState.boostTimeRemaining
                     = state.boostState.boostTimeRemaining
               /\ (~state'.isPaused => clock'.lastTickTime = clock'.now)]_vars

\* a live tick that integrated time after a pause during which time passed
C29_Witness ==
    /\ lastOp.name = "simulationTick"
    /\ notifications > 0
    /\ clock.runTime < clock.now
    /\ clock.lastTickTime = clock.now
    /\ state.simulatedTime > 0


\* C30: subscribers never receive a state whose configuration differs from
\* the one its derived values were computed for: every state that
\* selectHardware or updateConfig passes to the subscribers with the
\* configuration of the committed state carries the committed state's power,
\* psuInfo, warnings and boostState.
C30_NoStaleNotification ==
    lastOp.name \in {"selectHardware", "updateConfig"}
    => \A i \in 1..Len(delivered.calls) :
          (/\ delivered.calls[i].state.workload = state.workload
           /\ delivered.calls[i].state.cpu = state.cpu
           /\ delivered.calls[i].state.gpu = state.gpu
           /\ delivered.calls[i].state.psu = state.psu
           /\ delivered.calls[i].state.cooling = state.cooling
           /\ delivered.calls[i].state.memory = state.memory
           /\ delivered.calls[i].state.ambientTemp = state.ambientTemp)
          => /\ delivered.calls[i].state.power = state.power
             /\ delivered.calls[i].state.psuInfo = state.psuInfo
             /\ delivered.calls[i].state.warnings = state.warnings
             /\ delivered.calls[i].state.boostState = state.boostState

====
